---- MODULE Spec2Model ----
(***************************************************************************)
(* A model of the WhatsApp chat analyser (src/main.py): the text           *)
(* normaliser, the log tokenizer and classifier, the thread reconstructor, *)
(* the sentiment aggregation pipeline and the result cache; and of the     *)
(* phone anonymizer (src/anonymizer.py).                                   *)
(*                                                                         *)
(* A text is a sequence of code points.  An ordinary code point is a       *)
(* one-character string; a code point that has no printable form is a      *)
(* named string ("LRM" is U+200E, "ZWSP" is U+200B, "EMO1" is an emoji).    *)
(***************************************************************************)
EXTENDS Integers, Sequences, FiniteSets, TLC

VARIABLES
    \* process_message_threads: the rows of messages_df (message, timestamp), the
    \* row the loop is at, and the locals current_thread and viral_messages; the
    \* list it returns
    messages_df, row_num, current_thread, viral_messages, t_result, t_pc,
    \* clean_message and the system-notice detection of the tests
    n_in, n_kind, n_out, n_content, n_system, n_pc,
    \* parse_whatsapp_chat: the lines of content (as numbers of ChatLines), the
    \* line the loop is at, and the locals messages, media_items, current_message
    lines, line_num, messages, media_items, current_message, p_pc,
    \* analyze_chat_stats(df): the counters all_emojis and all_words it returns
    all_emojis, all_words,
    \* the message texts parse_whatsapp_chat classified as system notices
    p_notices,
    \* analyze_sentiment_parallel: its argument, the semaphore's free permits,
    \* the date-group tasks, the module's sentiment_cache, the list it returns
    daily_messages, semaphore, tasks, sentiment_cache, sentiment_data, s_pc,
    \* what analyze_sentiment_batch returned so far: the path taken and the score
    batch_returns,
    \* analyze_chat after the sentiment pipeline: the lists of the summary
    saddest_days, happiest_days, sentiment_over_time,
    \* analyze_chat: the requests, the files of CACHE_DIR by file hash, and the
    \* memo of get_chat_insights (functools.cache) by prompt
    requests, result_cache, insight_cache,
    \* PhoneAnonymizer.anonymize: its arguments and the pair it returns
    phone, username, anonymized, display_name, a_pc,
    \* the shared links of analyze_chat: the sorted rows, the row of the first
    \* pass, link_stats, the url and the row of the second pass, shared_links
    messages_by_time, link_row, link_stats, link_url, link_ref, shared_links, l_pc

normVars == <<n_in, n_kind, n_out, n_content, n_system, n_pc>>
parseVars ==
    <<lines, line_num, messages, media_items, current_message, p_pc, p_notices,
      all_emojis, all_words>>
threadVars == <<messages_df, row_num, current_thread, viral_messages, t_result, t_pc>>
rankVars == <<saddest_days, happiest_days, sentiment_over_time>>
sentVars ==
    <<daily_messages, semaphore, tasks, sentiment_cache, sentiment_data, s_pc, batch_returns,
      rankVars>>
reqVars == <<requests, result_cache, insight_cache>>
anonVars == <<phone, username, anonymized, display_name, a_pc>>
linkVars ==
    <<messages_by_time, link_row, link_stats, link_url, link_ref, shared_links, l_pc>>
vars == <<normVars, parseVars, threadVars, sentVars, reqVars, anonVars, linkVars>>

\* what the steps of one part of the program leave alone
OutsideNorm == <<parseVars, threadVars, sentVars, reqVars, anonVars, linkVars>>
OutsideParse == <<normVars, threadVars, sentVars, reqVars, anonVars, linkVars>>
OutsideThread == <<normVars, parseVars, sentVars, reqVars, anonVars, linkVars>>
OutsideSent == <<normVars, parseVars, threadVars, reqVars, anonVars, linkVars>>
OutsideReq == <<normVars, parseVars, threadVars, sentVars, anonVars, linkVars>>
OutsideLink == <<normVars, parseVars, threadVars, sentVars, reqVars, anonVars>>
OutsideAnon == <<normVars, parseVars, threadVars, sentVars, reqVars, linkVars>>

-----------------------------------------------------------------------------
(* Texts *)

Chars(s) == [i \in 1..Len(s) |-> SubSeq(s, i, i)]

\* U+200E, U+200F, U+202A..U+202F: the class of UNICODE_CONTROL_CHARS
UNICODE_CONTROL_CHARS == {"LRM", "RLM", "LRE", "RLE", "PDF", "LRO", "RLO", "NNBSP"}

\* the control characters the tests of clean_message list (control_chars)
RemovalSet ==
    {"LRM", "RLM", "LRE", "RLE", "PDF", "LRO", "RLO", "ZWSP", "ZWNJ", "ZWJ", "BOM"}

\* what str.strip(), str.split() and the regex class \s treat as white space
Whitespace == {" ", "TAB", "CR", "NNBSP"}

Digits == {"0", "1", "2", "3", "4", "5", "6", "7", "8", "9"}

\* code points of the range U+1F300..U+1F9FF of EMOJI_PATTERN
EmojiChars == {"EMO1", "EMO2"}

UpperCase == Chars("ABCDEFGHIJKLMNOPQRSTUVWXYZ")
LowerCase == Chars("abcdefghijklmnopqrstuvwxyz")

LowerChar(c) ==
    IF \E i \in 1..26 : UpperCase[i] = c
    THEN LowerCase[CHOOSE i \in 1..26 : UpperCase[i] = c]
    ELSE c

\* str.lower()
Lower(s) == [i \in 1..Len(s) |-> LowerChar(s[i])]

\* s[i:] of Python with a 1-based i
From(s, i) == SubSeq(s, i, Len(s))

\* the text t occurs in s at position i
OccursAt(t, s, i) ==
    /\ i >= 1
    /\ i + Len(t) - 1 <= Len(s)
    /\ \A k \in 1..Len(t) : s[i + k - 1] = t[k]

\* str.startswith
StartsWith(s, t) == OccursAt(t, s, 1)

\* t in s
Contains(s, t) == \E i \in 1..(Len(s) + 1) : OccursAt(t, s, i)

\* the first position at or after i where t occurs in s, 0 when there is none
Find(s, t, i) ==
    IF \E j \in i..(Len(s) + 1) : OccursAt(t, s, j)
    THEN CHOOSE j \in i..(Len(s) + 1) :
            /\ OccursAt(t, s, j)
            /\ \A k \in i..(j - 1) : ~OccursAt(t, s, k)
    ELSE 0

\* str.strip(): white space removed at both ends
Strip(s) ==
    LET keep == {i \in 1..Len(s) : s[i] \notin Whitespace}
    IN  IF keep = {} THEN <<>>
        ELSE LET lo == CHOOSE i \in keep : \A j \in keep : i <= j
                 hi == CHOOSE i \in keep : \A j \in keep : j <= i
             IN  SubSeq(s, lo, hi)

-----------------------------------------------------------------------------
(* clean_message *)

IsControlChar(c) == c \in UNICODE_CONTROL_CHARS

NotControlChar(c) == ~IsControlChar(c)

\* UNICODE_CONTROL_CHARS.sub('', text).strip()
clean_message(text) == Strip(SelectSeq(text, NotControlChar))

-----------------------------------------------------------------------------
(* System notices *)

\* the part of a text before its first line feed: what '.*' can run over
FirstLine(s) ==
    LET nl == Find(s, <<"LF">>, 1)
    IN  IF nl = 0 \/ nl > Len(s) THEN s ELSE SubSeq(s, 1, nl - 1)

\* re.compile(r'.*' + t).match(s)
MatchAnywhere(s, t) == \E i \in 1..(Len(FirstLine(s)) + 1) : OccursAt(t, s, i)

\* re.compile(t + r'.*').match(s) and re.compile(t).match(s)
MatchPrefix(s, t) == StartsWith(s, t)

JoinedNotice == Chars("joined using this group's invite link")
CreatedNotice == Chars("created this group")
SecurityNotice == Chars("Your security code with")
PhoneNotice == Chars("changed their phone number")
EncryptionNotice == Chars("Messages and calls are end-to-end encrypted")
DeletedNotice == Chars("This message was deleted")

\* any(pattern.match(message) for pattern in SYSTEM_MESSAGE_PATTERNS)
SYSTEM_MESSAGE_PATTERNS(message) ==
    \/ MatchAnywhere(message, JoinedNotice)
    \/ MatchAnywhere(message, CreatedNotice)
    \/ MatchPrefix(message, SecurityNotice)
    \/ MatchAnywhere(message, PhoneNotice)
    \/ MatchPrefix(message, EncryptionNotice)
    \/ MatchPrefix(message, DeletedNotice)

\* cleaned.split(': ', 1)[1] if ': ' in cleaned else cleaned
MessageContent(cleaned) ==
    LET at == Find(cleaned, <<":", " ">>, 1)
    IN  IF at = 0 THEN cleaned ELSE From(cleaned, at + 2)

-----------------------------------------------------------------------------
(* Regular expressions: the pieces the patterns of main.py are made of *)

\* how many digits, at most hi, s holds from position pos on
DigitRun(s, pos, hi) ==
    LET stop == {k \in 0..hi : pos + k > Len(s) \/ s[pos + k] \notin Digits}
    IN  IF stop = {} THEN hi ELSE CHOOSE k \in stop : \A j \in stop : k <= j

Lit(t) == [k |-> "lit", v |-> Chars(t)]
Dig(lo, hi) == [k |-> "dig", lo |-> lo, hi |-> hi]
Ws == [k |-> "ws"]
Opt(items) == [k |-> "opt", v |-> items]
OneOf(texts) == [k |-> "alt", v |-> texts]

SetMax(S) == CHOOSE x \in S : \A y \in S : y <= x

RECURSIVE RxEnd(_, _, _)
\* the position after the match of the items at pos in s (greedy, with
\* backtracking), 0 when they do not match there
RxEnd(items, s, pos) ==
    IF items = <<>> THEN pos
    ELSE
      LET it == Head(items)
          rest == Tail(items)
      IN  CASE it.k = "lit" ->
                  IF OccursAt(it.v, s, pos) THEN RxEnd(rest, s, pos + Len(it.v)) ELSE 0
            [] it.k = "ws" ->
                  IF pos <= Len(s) /\ s[pos] \in Whitespace
                  THEN RxEnd(rest, s, pos + 1) ELSE 0
            [] it.k = "dig" ->
                  LET run == DigitRun(s, pos, it.hi)
                      ok == {n \in it.lo..run : RxEnd(rest, s, pos + n) # 0}
                  IN  IF ok = {} THEN 0 ELSE RxEnd(rest, s, pos + SetMax(ok))
            [] it.k = "opt" ->
                  LET e == RxEnd(it.v, s, pos)
                  IN  IF e # 0 /\ RxEnd(rest, s, e) # 0
                      THEN RxEnd(rest, s, e) ELSE RxEnd(rest, s, pos)
            [] it.k = "alt" ->
                  LET ok == {i \in 1..Len(it.v) :
                                /\ OccursAt(Chars(it.v[i]), s, pos)
                                /\ RxEnd(rest, s, pos + Len(it.v[i])) # 0}
                  IN  IF ok = {} THEN 0
                      ELSE LET i == CHOOSE i \in ok : \A j \in ok : i <= j
                           IN  RxEnd(rest, s, pos + Len(it.v[i]))

NoMatch == [matched |-> FALSE]

-----------------------------------------------------------------------------
(* WHATSAPP_PATTERNS: the three line grammars, in the order they are tried *)

\* \[(\d{1,2}/\d{1,2}/\d{4},\s\d{1,2}:\d{2}:\d{2})\]\s   and then (.*?):\s(.*)
Grammar1 ==
    [open |-> 1,
     stamp |-> <<Dig(1, 2), Lit("/"), Dig(1, 2), Lit("/"), Dig(4, 4), Lit(","), Ws,
                 Dig(1, 2), Lit(":"), Dig(2, 2), Lit(":"), Dig(2, 2)>>,
     close |-> <<Lit("]"), Ws>>, width |-> 2,
     colon |-> <<Lit(":"), Ws>>]

\* (\d{1,2}/\d{1,2}/\d{2,4},\s\d{1,2}:\d{2}(?::\d{2})?\s(?:AM|PM)?) - (.*?): (.*)
Grammar2 ==
    [open |-> 0,
     stamp |-> <<Dig(1, 2), Lit("/"), Dig(1, 2), Lit("/"), Dig(2, 4), Lit(","), Ws,
                 Dig(1, 2), Lit(":"), Dig(2, 2), Opt(<<Lit(":"), Dig(2, 2)>>), Ws,
                 Opt(<<OneOf(<<"AM", "PM">>)>>)>>,
     close |-> <<Lit(" - ")>>, width |-> 3,
     colon |-> <<Lit(": ")>>]

\* (\d{1,2}/\d{1,2}/\d{2,4},\s\d{1,2}:\d{2}(?::\d{2})?) - (.*?): (.*)
Grammar3 ==
    [open |-> 0,
     stamp |-> <<Dig(1, 2), Lit("/"), Dig(1, 2), Lit("/"), Dig(2, 4), Lit(","), Ws,
                 Dig(1, 2), Lit(":"), Dig(2, 2), Opt(<<Lit(":"), Dig(2, 2)>>)>>,
     close |-> <<Lit(" - ")>>, width |-> 3,
     colon |-> <<Lit(": ")>>]

WHATSAPP_PATTERNS == <<Grammar1, Grammar2, Grammar3>>

\* pattern.match(cleaned_line): the groups (timestamp, sender, message)
GrammarMatch(g, line) ==
    LET start == 1 + g.open
        opened == g.open = 0 \/ OccursAt(<<"[">>, line, 1)
        \* the stamp must be followed by what closes it
        stampEnd == IF opened THEN RxEnd(g.stamp \o g.close, line, start) ELSE 0
        \* (.*?) is lazy: the sender ends at the first colon the grammar accepts
        colons == IF stampEnd = 0 THEN {}
                  ELSE {j \in stampEnd..Len(line) :
                          /\ RxEnd(g.colon, line, j) # 0
                          /\ \A k \in stampEnd..(j - 1) : line[k] # "LF"}
    IN  IF colons = {} THEN NoMatch
        ELSE LET j == CHOOSE j \in colons : \A k \in colons : j <= k
                 textAt == RxEnd(g.colon, line, j)
                 lineEnd == LET nl == Find(line, <<"LF">>, textAt)
                            IN  IF nl = 0 \/ nl > Len(line) THEN Len(line) ELSE nl - 1
             IN  [matched |-> TRUE,
                  timestamp |-> SubSeq(line, start, stampEnd - g.width - 1),
                  sender |-> SubSeq(line, stampEnd, j - 1),
                  message |-> SubSeq(line, textAt, lineEnd)]

-----------------------------------------------------------------------------
(* MEDIA_PATTERN and the media types *)

OmittedTypes == <<"image", "video", "GIF", "sticker", "audio", "document">>

AttachedExtensions ==
    <<"jpg", "jpeg", "png", "gif", "mp4", "webp", "pdf", "doc", "docx">>

VALID_MEDIA_TYPES == {"image", "video", "gif", "sticker", "audio", "document"}

MEDIA_TYPE_MAP(ext) ==
    CASE ext \in {"jpg", "jpeg", "png", "webp"} -> "image"
      [] ext = "mp4" -> "video"
      [] ext \in {"pdf", "doc", "docx"} -> "document"
      [] OTHER -> "unknown"

WordChars ==
    Digits \cup {"_"} \cup {UpperCase[i] : i \in 1..26} \cup {LowerCase[i] : i \in 1..26}

\* the end of the longest run of code points of the class C from pos on
RunEnd(s, pos, C) ==
    LET stop == {k \in pos..(Len(s) + 1) : k > Len(s) \/ s[k] \notin C}
    IN  CHOOSE k \in stop : \A j \in stop : k <= j

\* (image|video|GIF|sticker|audio|document) omitted, at pos: the type or ""
OmittedAt(s, pos) ==
    LET ok == {i \in 1..Len(OmittedTypes) :
                  OccursAt(Chars(OmittedTypes[i]) \o Chars(" omitted"), s, pos)}
    IN  IF ok = {} THEN "" ELSE OmittedTypes[CHOOSE i \in ok : \A j \in ok : i <= j]

\* <attached: \d+-(\w+)-\d{4}-\d{2}-\d{2}-\d{2}-\d{2}-\d{2}\.(jpg|...|docx)>, at
\* pos: the file extension or ""
AttachedAt(s, pos) ==
    LET numAt == pos + Len("<attached: ")
        numEnd == RunEnd(s, numAt, Digits)
        nameEnd == RunEnd(s, numEnd + 1, WordChars)
        dateEnd == RxEnd(<<Lit("-"), Dig(4, 4), Lit("-"), Dig(2, 2), Lit("-"), Dig(2, 2),
                           Lit("-"), Dig(2, 2), Lit("-"), Dig(2, 2), Lit("-"), Dig(2, 2),
                           Lit(".")>>, s, nameEnd)
        ok == {i \in 1..Len(AttachedExtensions) :
                  OccursAt(Chars(AttachedExtensions[i]) \o <<">">>, s, dateEnd)}
    IN  IF /\ OccursAt(Chars("<attached: "), s, pos)
           /\ numEnd > numAt
           /\ OccursAt(<<"-">>, s, numEnd)
           /\ nameEnd > numEnd + 1
           /\ dateEnd # 0
           /\ ok # {}
        THEN AttachedExtensions[CHOOSE i \in ok : \A j \in ok : i <= j]
        ELSE ""

\* where the media text may start after the colon at j: after ':', an
\* optional white space ('\s?') and an optional left-to-right mark
AfterColon(s, j) ==
    {j + 1 + a + b : a \in {x \in {0, 1} : x = 1 => (j + 1 <= Len(s) /\ s[j + 1] \in Whitespace)},
                     b \in {0, 1}} \cap
    {q \in (j + 1)..(j + 3) :
        \/ q = j + 1
        \/ q = j + 2 /\ j + 1 <= Len(s) /\ s[j + 1] \in Whitespace \cup {"LRM"}
        \/ q = j + 3 /\ j + 2 <= Len(s) /\ s[j + 1] \in Whitespace /\ s[j + 2] = "LRM"}

\* the media text starts at q
MediaTextAt(s, q) == OmittedAt(s, q) # "" \/ AttachedAt(s, q) # ""

\* MEDIA_PATTERN.match(message).  Every optional head of the pattern (the mark,
\* the bracket, the timestamp) can also be taken by '(?:.*?):', and no colon
\* inside such a head is followed by a media text, so the match is decided by
\* the first colon of the first line that a media text follows.
MEDIA_PATTERN(message) ==
    LET first == FirstLine(message)
        hits == {j \in 1..Len(first) :
                    /\ first[j] = ":"
                    /\ \E q \in AfterColon(message, j) : MediaTextAt(message, q)}
    IN  IF hits = {} THEN NoMatch
        ELSE LET j == CHOOSE j \in hits : \A k \in hits : j <= k
                 \* greedy: the optional white space and mark are taken when they can be
                 q == SetMax({q \in AfterColon(message, j) : MediaTextAt(message, q)})
             IN  [matched |-> TRUE,
                  omitted_type |-> OmittedAt(message, q),
                  file_extension |->
                      IF OmittedAt(message, q) # "" THEN "" ELSE AttachedAt(message, q)]

\* str.lower() of a media type
LowerType(t) == IF t = "GIF" THEN "gif" ELSE t

\* str.upper() of a mapped media type
UpperType(t) ==
    CASE t = "image" -> Chars("IMAGE")
      [] t = "video" -> Chars("VIDEO")
      [] t = "gif" -> Chars("GIF")
      [] t = "sticker" -> Chars("STICKER")
      [] t = "audio" -> Chars("AUDIO")
      [] t = "document" -> Chars("DOCUMENT")
      [] OTHER -> Chars("UNKNOWN")

\* the mapped_type of a media match
MappedType(m) ==
    LET media_type == IF m.omitted_type # "" THEN LowerType(m.omitted_type)
                      ELSE m.file_extension
    IN  IF media_type \in VALID_MEDIA_TYPES THEN media_type
        ELSE MEDIA_TYPE_MAP(media_type)

\* f"[Media: {mapped_type.upper()}] shared by {sender}"
MediaPlaceholder(mapped_type, sender) ==
    Chars("[Media: ") \o UpperType(mapped_type) \o Chars("] shared by ") \o sender

-----------------------------------------------------------------------------
(* datetime.strptime over the five format templates of parse_whatsapp_chat *)

DigitValue(c) == CHOOSE v \in 0..9 : Chars("0123456789")[v + 1] = c

RECURSIVE Number(_)
\* the value of a text of digits
Number(t) == IF t = <<>> THEN 0 ELSE 10 * Number(SubSeq(t, 1, Len(t) - 1)) + DigitValue(t[Len(t)])

\* the fields of a timestamp text: a/b/y, h:m[:s][ (AM|PM)]; shaped = FALSE when
\* the text is not of that shape
StampFields(ts) ==
    LET aEnd == RunEnd(ts, 1, Digits)
        bEnd == RunEnd(ts, aEnd + 1, Digits)
        yEnd == RunEnd(ts, bEnd + 1, Digits)
        \* ', ' of the formats is ',' and one or more white spaces
        hAt == RunEnd(ts, yEnd + 1, Whitespace)
        hEnd == RunEnd(ts, hAt, Digits)
        mEnd == RunEnd(ts, hEnd + 1, Digits)
        hasS == OccursAt(<<":">>, ts, mEnd) /\ RunEnd(ts, mEnd + 1, Digits) > mEnd + 1
        sEnd == IF hasS THEN RunEnd(ts, mEnd + 1, Digits) ELSE mEnd
        pAt == RunEnd(ts, sEnd, Whitespace)
        ampm == IF OccursAt(Chars("AM"), ts, pAt) THEN "AM"
                ELSE IF OccursAt(Chars("PM"), ts, pAt) THEN "PM" ELSE ""
        end == IF ampm = "" THEN sEnd ELSE pAt + 2
    IN  IF /\ aEnd > 1 /\ OccursAt(<<"/">>, ts, aEnd)
           /\ bEnd > aEnd + 1 /\ OccursAt(<<"/">>, ts, bEnd)
           /\ yEnd > bEnd + 1 /\ OccursAt(<<",">>, ts, yEnd)
           /\ hAt > yEnd + 1
           /\ hEnd > hAt /\ OccursAt(<<":">>, ts, hEnd)
           /\ mEnd > hEnd + 1
           /\ (ampm # "" => pAt > sEnd)
           /\ end = Len(ts) + 1
        THEN [shaped |-> TRUE,
              a |-> SubSeq(ts, 1, aEnd - 1), b |-> SubSeq(ts, aEnd + 1, bEnd - 1),
              y |-> SubSeq(ts, bEnd + 1, yEnd - 1), h |-> SubSeq(ts, hAt, hEnd - 1),
              m |-> SubSeq(ts, hEnd + 1, mEnd - 1),
              s |-> IF hasS THEN SubSeq(ts, mEnd + 1, sEnd - 1) ELSE <<>>,
              hasS |-> hasS, ampm |-> ampm]
        ELSE [shaped |-> FALSE]

IsLeap(y) == (y % 4 = 0 /\ y % 100 # 0) \/ y % 400 = 0

DaysInMonth(y, m) ==
    IF m = 2 THEN (IF IsLeap(y) THEN 29 ELSE 28)
    ELSE IF m \in {4, 6, 9, 11} THEN 30 ELSE 31

\* days from 2000-01-01 to the civil date y-m-d
DaysFromCivil(y, m, d) ==
    LET yy == IF m <= 2 THEN y - 1 ELSE y
        era == yy \div 400
        yoe == yy - era * 400
        mp == IF m > 2 THEN m - 3 ELSE m + 9
        doy == (153 * mp + 2) \div 5 + d - 1
        doe == yoe * 365 + yoe \div 4 - yoe \div 100 + doy
    IN  era * 146097 + doe - 730425

SecondsPerDay == 86400

\* a datetime: the seconds from 2000-01-01 00:00:00
DateTime(y, mo, d, h, mi, sec) ==
    DaysFromCivil(y, mo, d) * SecondsPerDay + h * 3600 + mi * 60 + sec

\* the calendar date of a datetime (timestamp.dt.date), as days from 2000-01-01
DateOf(t) == t \div SecondsPerDay

NoTime == [ok |-> FALSE]

\* the datetime of the numbers of a timestamp, NoTime when they are no date and
\* time (the hour h0 is as written: of 12 when twelve, of 24 otherwise)
StrptimeNumbers(y, mo, d, h0, pm, twelve, mi, sec) ==
    IF /\ mo \in 1..12
       /\ y >= 1
       /\ d \in 1..DaysInMonth(y, mo)
       /\ (IF twelve THEN h0 \in 1..12 ELSE h0 \in 0..23)
       /\ mi \in 0..59
       /\ sec \in 0..59
    THEN [ok |-> TRUE,
          value |-> DateTime(y, mo, d,
                             IF twelve THEN (h0 % 12) + (IF pm THEN 12 ELSE 0) ELSE h0,
                             mi, sec)]
    ELSE NoTime

\* %Y of four digits as written; %y of two digits: 69..99 are 1969..1999
Year(y2, longYear) == IF longYear THEN y2 ELSE IF y2 >= 69 THEN 1900 + y2 ELSE 2000 + y2

\* strptime on the fields f of the timestamp
StrptimeFields(f, fmt) ==
    IF ~f.shaped THEN NoTime
    ELSE IF /\ Len(f.a) <= 2 /\ Len(f.b) <= 2 /\ Len(f.h) <= 2 /\ Len(f.m) <= 2
            /\ Len(f.y) = (IF fmt = 1 THEN 4 ELSE 2)
            /\ f.hasS = (fmt \in {1, 2, 4})
            /\ (fmt \in {1, 2, 4} => Len(f.s) <= 2)
            /\ (f.ampm # "") = (fmt \in {2, 3})
         THEN StrptimeNumbers(Year(Number(f.y), fmt = 1),
                              Number(IF fmt \in {1, 4, 5} THEN f.b ELSE f.a),
                              Number(IF fmt \in {1, 4, 5} THEN f.a ELSE f.b),
                              Number(f.h), f.ampm = "PM", fmt \in {2, 3},
                              Number(f.m),
                              IF fmt \in {1, 2, 4} THEN Number(f.s) ELSE 0)
         ELSE NoTime

\* datetime.strptime(timestamp, fmt) for the format number fmt of
\*   1 '%d/%m/%Y, %H:%M:%S'     2 '%m/%d/%y, %I:%M:%S %p'   3 '%m/%d/%y, %I:%M %p'
\*   4 '%d/%m/%y, %H:%M:%S'     5 '%d/%m/%y, %H:%M'
\* (a directive takes one or two digits, %Y four, %y two; the whole text must
\* be converted and the date must exist)
Strptime(ts, fmt) == StrptimeFields(StampFields(ts), fmt)

NumFormats == 5

\* the least of a set of numbers
SetMin(S) == CHOOSE x \in S : \A y \in S : x <= y

\* strptime with the first of the formats ok, NoTime when there is none
FirstFormat(ts, ok) == IF ok = {} THEN NoTime ELSE Strptime(ts, SetMin(ok))

\* the first of the formats that parses the timestamp, NoTime when none does
ParseTimestamp(ts) == FirstFormat(ts, {fmt \in 1..NumFormats : Strptime(ts, fmt).ok})

\* timestamp.strip('[]')
StripBrackets(ts) ==
    LET keep == {i \in 1..Len(ts) : ts[i] \notin {"[", "]"}}
    IN  IF keep = {} THEN <<>>
        ELSE SubSeq(ts, CHOOSE i \in keep : \A j \in keep : i <= j,
                        CHOOSE i \in keep : \A j \in keep : j <= i)

-----------------------------------------------------------------------------
(* The inputs of the tests of clean_message (tests/test_system_messages.py) *)

MaxLen == 3

NoticeKinds ==
    {"created", "joined", "added", "security", "encryption", "phone", "deleted"}

\* the expected_clean of the first test case of each kind
NoticeLine(kind) ==
    CASE kind = "created" ->
            Chars("[24/08/2024, 21:35:29] +1 (917) 488-2434: Alice created this group")
      [] kind = "joined" ->
            Chars("[24/08/2024, 21:36:00] +44 7911 123456: Bob joined using this group's invite link")
      [] kind = "added" ->
            Chars("[24/08/2024, 21:35:29] +1 (917) 488-2434: Ben Alterzon added +1 (917) 488-2434")
      [] kind = "security" ->
            Chars("[28/08/2024, 19:49:55] +972 58-799-5895: Your security code with +972 58-799-5895 changed.")
      [] kind = "encryption" ->
            Chars("Messages and calls are end-to-end encrypted. No one outside of this chat can read or listen.")
      [] kind = "phone" ->
            Chars("[24/08/2024, 21:40:00] +1 (917) 488-2434: Charlie changed their phone number")
      [] kind = "deleted" ->
            Chars("[24/08/2024, 22:00:00] +1 (917) 488-2434: This message was deleted")

\* the text s with the code point c put in after its first pos code points
Insert(s, pos, c) == SubSeq(s, 1, pos) \o <<c>> \o From(s, pos + 1)

\* the three inputs of test_edge_cases, with the text each must clean to
EdgeCaseInputs ==
    { [input |-> <<"LRM", "ZWSP", "LRE">>
                    \o Chars("[24/08/2024, 21:35:29] +1 (917) 488-2434: This message was deleted")
                    \o <<"PDF", "PDF", "PDF">>,
       kind |-> "deleted"],
      [input |-> <<"LRM", "RLM">>
                    \o Chars("[24/08/2024, 21:35:29] +1 (917) 488-2434: ")
                    \o <<"LRE", "RLE">> \o Chars("Alice created this group")
                    \o <<"PDF", "PDF">>,
       kind |-> "created"],
      [input |-> Chars("[24/08/2024, 21:35:29] +1 (917) 488-2434: A") \o <<"ZWSP">>
                    \o Chars("l") \o <<"ZWNJ">> \o Chars("i") \o <<"ZWJ">>
                    \o Chars("ce created this group"),
       kind |-> "created"] }

\* a notice line as the tests decorate it: one control character somewhere
DecoratedInputs ==
    UNION { { [input |-> Insert(NoticeLine(k), pos, c), kind |-> k] :
                pos \in 0..Len(NoticeLine(k)), c \in RemovalSet } : k \in NoticeKinds }

\* the notice lines as they are
PlainInputs == { [input |-> NoticeLine(k), kind |-> k] : k \in NoticeKinds }

NormAlphabet == RemovalSet \cup {"NNBSP", "a", " "}

RECURSIVE TextsUpTo(_, _)
\* all texts of at most n code points of the alphabet A
TextsUpTo(A, n) ==
    IF n = 0 THEN {<<>>}
    ELSE LET shorter == TextsUpTo(A, n - 1)
         IN  shorter \cup {Append(t, c) : t \in {u \in shorter : Len(u) = n - 1}, c \in A}

ShortInputs == {[input |-> t, kind |-> "text"] : t \in TextsUpTo(NormAlphabet, MaxLen)}

NormInit ==
    /\ \E x \in ShortInputs \cup PlainInputs \cup DecoratedInputs \cup EdgeCaseInputs :
          /\ n_in = x.input
          /\ n_kind = x.kind
    /\ n_out = <<>>
    /\ n_content = <<>>
    /\ n_system = FALSE
    /\ n_pc = "input"

\* cleaned = clean_message(input_msg)
NormClean ==
    /\ n_pc = "input"
    /\ n_out' = clean_message(n_in)
    /\ n_pc' = "cleaned"
    /\ UNCHANGED <<n_in, n_kind, n_content, n_system>>
    /\ UNCHANGED OutsideNorm

\* message_content and is_system of _run_test_cases
NormDetect ==
    /\ n_pc = "cleaned"
    /\ n_content' = MessageContent(n_out)
    /\ n_system' = SYSTEM_MESSAGE_PATTERNS(MessageContent(n_out))
    /\ n_pc' = "detected"
    /\ UNCHANGED <<n_in, n_kind, n_out>>
    /\ UNCHANGED OutsideNorm

NormNext == NormClean \/ NormDetect

\* clean_message is not in use
NormIdle ==
    /\ n_in = <<>>
    /\ n_kind = "text"
    /\ n_out = <<>>
    /\ n_content = <<>>
    /\ n_system = FALSE
    /\ n_pc = "idle"

-----------------------------------------------------------------------------
(* parse_whatsapp_chat *)

MaxLines == 3

\* the lines a chat log is made of here
ChatLines ==
    << Chars("[24/08/2024, 21:35:29] Alice: hello there"),
       Chars("[24/08/2024, 21:35:40] Bob: hello there too"),
       Chars("[24/08/2024, 21:36:00] Carol: image omitted"),
       Chars("[24/08/2024, 21:37:00] Dan: Alice created this group"),
       Chars("and more text"),
       Chars("[08/24/2024, 21:38:00] Eve: month first"),
       Chars("12/25/23, 10:30 PM - Bob: merry xmas"),
       Chars("25/12/23, 22:31 - Ann: Re: video omitted"),
       <<>>,
       <<"LRM">> \o Chars("[24/08/2024, 21:39:00] ") \o <<"RLM">> \o Chars("Fay: ")
           \o <<"LRE">> \o Chars("hi") \o <<"ZWSP">> \o Chars("all") \o <<"PDF">>,
       Chars("[24/08/2024, 21:40:00] Gil: GIF omitted"),
       Chars("[08/24/2024, 21:41:00] Eve: Re: image omitted") >>

RECURSIVE SeqsUpTo(_, _)
\* all sequences of at most n elements of S
SeqsUpTo(S, n) ==
    IF n = 0 THEN {<<>>}
    ELSE LET shorter == SeqsUpTo(S, n - 1)
         IN  shorter \cup {Append(t, c) : t \in {u \in shorter : Len(u) = n - 1}, c \in S}

\* Counter()
EmptyCounter == [k \in {} |-> 0]

ParseInit ==
    /\ lines \in SeqsUpTo(1..Len(ChatLines), MaxLines)
    /\ line_num = 1
    /\ messages = <<>>
    /\ media_items = <<>>
    /\ current_message = <<>>
    /\ p_notices = {}
    /\ p_pc = "lines"
    /\ all_emojis = EmptyCounter
    /\ all_words = EmptyCounter

ParseIdle ==
    /\ lines = <<>>
    /\ line_num = 1
    /\ messages = <<>>
    /\ media_items = <<>>
    /\ current_message = <<>>
    /\ p_notices = {}
    /\ p_pc = "idle"
    /\ all_emojis = EmptyCounter
    /\ all_words = EmptyCounter

\* messages[-1]['message'] += '\n' + clean_message(current_message)
SavePrevious(st) ==
    IF st.current_message = <<>> THEN st
    ELSE LET n == Len(st.messages)
         IN  [st EXCEPT !.messages[n].message = @ \o <<"LF">> \o clean_message(st.current_message),
                        !.current_message = <<>>]

\* the message text after the media rewrite
MessageText(media_match, sender, text) ==
    IF media_match.matched THEN MediaPlaceholder(MappedType(media_match), sender) ELSE text

\* what one pattern's turn of the loop found in the line
MatchResult(timestamp, sender, media_match, message) ==
    [matched |-> TRUE,
     sender |-> sender,
     is_media |-> media_match.matched,
     media_item |-> IF media_match.matched
                    THEN [type |-> MappedType(media_match), sender |-> sender,
                          timestamp |-> timestamp, reactions |-> 0]
                    ELSE [type |-> "none"],
     message |-> message,
     is_system |-> SYSTEM_MESSAGE_PATTERNS(message),
     parsed_timestamp |-> ParseTimestamp(StripBrackets(timestamp))]

\* the media check of the cleaned text: media_match = MEDIA_PATTERN.match(message)
MatchMedia(timestamp, sender, text, media_match) ==
    MatchResult(timestamp, sender, media_match, MessageText(media_match, sender, text))

\* timestamp, sender, message = match.groups(), sender and message cleaned
MatchGroups(match) ==
    IF ~match.matched THEN NoMatch
    ELSE MatchMedia(match.timestamp, clean_message(match.sender),
                    clean_message(match.message),
                    MEDIA_PATTERN(clean_message(match.message)))

\* what the body of the loop over the patterns computes from the line alone,
\* for one pattern: the match, the cleaned sender and text, the media item, the
\* message text after the media rewrite, the system check and the timestamp
MatchLine(pattern, cleaned_line) == MatchGroups(GrammarMatch(pattern, cleaned_line))

\* MatchLine for every pattern, in the order of WHATSAPP_PATTERNS
Tokenize(line) ==
    [k \in 1..Len(WHATSAPP_PATTERNS) |-> MatchLine(WHATSAPP_PATTERNS[k], clean_message(line))]

\* Tokenize of each line of ChatLines, computed once
Tokenized == [i \in 1..Len(ChatLines) |-> Tokenize(ChatLines[i])]

RECURSIVE TryPatterns(_, _, _)
\* the loop 'for pattern in WHATSAPP_PATTERNS' from the pattern number k on; both
\* 'continue' statements of its body go on with the next pattern
TryPatterns(k, st, tokens) ==
    IF k > Len(tokens) THEN st
    ELSE
      LET match == tokens[k]
      IN  IF ~match.matched THEN TryPatterns(k + 1, st, tokens)
          ELSE
            LET saved == SavePrevious(st)
                withMedia == IF match.is_media
                             THEN [saved EXCEPT !.media_items = Append(@, match.media_item)]
                             ELSE saved
            IN  IF match.is_system
                THEN TryPatterns(k + 1,
                                 [withMedia EXCEPT !.notices = @ \cup {match.message}],
                                 tokens)
                ELSE IF ~match.parsed_timestamp.ok
                THEN TryPatterns(k + 1, withMedia, tokens)
                ELSE [withMedia EXCEPT
                        !.messages = Append(@, [timestamp |-> match.parsed_timestamp.value,
                                                sender |-> Strip(match.sender),
                                                message |-> Strip(match.message)]),
                        !.matched = TRUE]

\* one turn of the loop 'for line_num, line in enumerate(lines, 1)'; tokens is
\* Tokenize(line)
ProcessLine(st, line, tokens) ==
    LET after == TryPatterns(1, [st EXCEPT !.matched = FALSE], tokens)
    IN  IF ~after.matched /\ Strip(line) # <<>> /\ after.messages # <<>>
        THEN [after EXCEPT !.current_message = @ \o <<" ">> \o line]
        ELSE after

ParseLine ==
    /\ p_pc = "lines"
    /\ line_num <= Len(lines)
    /\ LET after == ProcessLine([messages |-> messages, media_items |-> media_items,
                                 current_message |-> current_message,
                                 notices |-> p_notices, matched |-> FALSE],
                                ChatLines[lines[line_num]], Tokenized[lines[line_num]])
       IN  /\ messages' = after.messages
           /\ media_items' = after.media_items
           /\ current_message' = after.current_message
           /\ p_notices' = after.notices
    /\ line_num' = line_num + 1
    /\ UNCHANGED <<lines, p_pc, all_emojis, all_words>>
    /\ UNCHANGED OutsideParse

\* the end of parse_whatsapp_chat: df and media_items are returned, and an
\* empty df goes with no media items
ParseReturn ==
    /\ p_pc = "lines"
    /\ line_num > Len(lines)
    /\ p_pc' = "done"
    /\ media_items' = IF messages = <<>> THEN <<>> ELSE media_items
    /\ UNCHANGED <<lines, line_num, messages, current_message, p_notices, all_emojis, all_words>>
    /\ UNCHANGED OutsideParse

-----------------------------------------------------------------------------
(* process_message_stats and analyze_chat_stats *)

COMMON_WORDS ==
    {Chars("a"), Chars("about"), Chars("above"), Chars("after"), Chars("again"),
     Chars("all"), Chars("am"), Chars("an"), Chars("and"), Chars("any"),
     Chars("anybody"), Chars("anyone"), Chars("anything"), Chars("are"), Chars("as"),
     Chars("at"), Chars("be"), Chars("because"), Chars("been"), Chars("being"),
     Chars("both"), Chars("but"), Chars("by"), Chars("can"), Chars("come"),
     Chars("could"), Chars("day"), Chars("did"), Chars("do"), Chars("each"),
     Chars("either"), Chars("every"), Chars("everybody"), Chars("everyone"),
     Chars("everything"), Chars("few"), Chars("for"), Chars("from"), Chars("get"),
     Chars("give"), Chars("go"), Chars("good"), Chars("had"), Chars("has"),
     Chars("have"), Chars("he"), Chars("her"), Chars("here"), Chars("him"),
     Chars("his"), Chars("how"), Chars("i"), Chars("if"), Chars("in"), Chars("into"),
     Chars("is"), Chars("it"), Chars("just"), Chars("know"), Chars("like"),
     Chars("look"), Chars("make"), Chars("many"), Chars("maybe"), Chars("me"),
     Chars("mine"), Chars("more"), Chars("most"), Chars("much"), Chars("must"),
     Chars("my"), Chars("myself"), Chars("new"), Chars("no"), Chars("nobody"),
     Chars("none"), Chars("not"), Chars("nothing"), Chars("now"), Chars("nowhere"),
     Chars("of"), Chars("on"), Chars("once"), Chars("one"), Chars("only"), Chars("or"),
     Chars("our"), Chars("ours"), Chars("ourselves"), Chars("out"), Chars("over"),
     Chars("people"), Chars("perhaps"), Chars("same"), Chars("say"), Chars("see"),
     Chars("she"), Chars("should"), Chars("so"), Chars("some"), Chars("somebody"),
     Chars("someone"), Chars("something"), Chars("somewhere"), Chars("stuff"),
     Chars("such"), Chars("take"), Chars("than"), Chars("that"), Chars("the"),
     Chars("their"), Chars("theirs"), Chars("them"), Chars("themself"),
     Chars("themselves"), Chars("then"), Chars("there"), Chars("therefore"),
     Chars("these"), Chars("they"), Chars("thing"), Chars("things"), Chars("think"),
     Chars("this"), Chars("those"), Chars("thus"), Chars("time"), Chars("to"),
     Chars("two"), Chars("up"), Chars("us"), Chars("use"), Chars("using"),
     Chars("very"), Chars("want"), Chars("was"), Chars("way"), Chars("we"),
     Chars("well"), Chars("were"), Chars("what"), Chars("when"), Chars("which"),
     Chars("who"), Chars("will"), Chars("with"), Chars("would"), Chars("year"),
     Chars("you"), Chars("your"), Chars("yours"), Chars("yourself"),
     Chars("yourselves")}

RECURSIVE FindWords(_)
\* WORD_PATTERN.findall(message): the runs of \w code points
FindWords(s) ==
    IF s = <<>> THEN <<>>
    ELSE IF s[1] \notin WordChars THEN FindWords(Tail(s))
    ELSE <<SubSeq(s, 1, RunEnd(s, 1, WordChars) - 1)>> \o
         FindWords(From(s, RunEnd(s, 1, WordChars)))

\* EMOJI_PATTERN.findall(message)
FindEmojis(s) == SelectSeq(s, LAMBDA c : c \in EmojiChars)

\* the code points of string.punctuation
Punctuation ==
    {"!", "QUOTE", "#", "$", "%", "&", "'", "(", ")", "*", "+", ",", "-", ".", "/", ":",
     ";", "<", "=", ">", "?", "@", "[", "BACKSLASH", "]", "^", "_", "GRAVE", "{", "|",
     "}", "~"}

\* str.strip(chars)
StripChars(s, chars) ==
    LET keep == {i \in 1..Len(s) : s[i] \notin chars}
    IN  IF keep = {} THEN <<>>
        ELSE SubSeq(s, SetMin(keep), SetMax(keep))

\* str.endswith
EndsWith(s, t) == OccursAt(t, s, Len(s) - Len(t) + 1)

\* re.sub of one of the endings at the end of w by ''; the endings of one
\* call never end with one another
WithoutEnding(w, endings) ==
    IF \E e \in endings : EndsWith(w, e)
    THEN SubSeq(w, 1, Len(w) - Len(CHOOSE e \in endings : EndsWith(w, e)))
    ELSE w

\* normalize_word: lower case, punctuation stripped at both ends, a final 's
\* and a final contraction removed
normalize_word(word) ==
    WithoutEnding(WithoutEnding(StripChars(Lower(word), Punctuation), {Chars("'s")}),
                  {Chars("'d"), Chars("'m"), Chars("'ve"), Chars("'re"), Chars("'ll"),
                   Chars("'t")})

\* str.isdigit()
IsDigit(w) == w # <<>> /\ \A i \in 1..Len(w) : w[i] \in Digits

\* the test a normalized word passes to be counted
Counted(norm_word) ==
    /\ Len(norm_word) > 3
    /\ norm_word \notin COMMON_WORDS
    /\ ~IsDigit(norm_word)
    /\ ~Contains(norm_word, Chars("http"))

RECURSIVE NormalizedWords(_)
\* the list words of process_message_stats, from the candidate words
NormalizedWords(raw_words) ==
    IF raw_words = <<>> THEN <<>>
    ELSE (IF Counted(normalize_word(Head(raw_words)))
          THEN <<normalize_word(Head(raw_words))>> ELSE <<>>) \o
         NormalizedWords(Tail(raw_words))

RECURSIVE Update(_, _)
\* Counter.update over a list of keys; a Counter is a function from its keys
\* to their counts
Update(counter, keys) ==
    IF keys = <<>> THEN counter
    ELSE Update(IF Head(keys) \in DOMAIN counter
                THEN [counter EXCEPT ![Head(keys)] = @ + 1]
                ELSE counter @@ (Head(keys) :> 1),
                Tail(keys))

\* process_message_stats(message): the emojis and the words it counts
process_message_stats(message) ==
    [emojis |-> FindEmojis(message), words |-> NormalizedWords(FindWords(message))]

RECURSIVE analyze_chat_stats(_, _, _)
\* analyze_chat_stats over df['message'] from the row k on
analyze_chat_stats(df, k, counters) ==
    IF k > Len(df) THEN counters
    ELSE analyze_chat_stats(
            df, k + 1,
            [all_emojis |-> Update(counters.all_emojis,
                                   process_message_stats(df[k].message).emojis),
             all_words |-> Update(counters.all_words,
                                  process_message_stats(df[k].message).words)])

NoCounters == [all_emojis |-> EmptyCounter, all_words |-> EmptyCounter]

\* analyze_chat goes on with a df that is not empty: analyze_chat_stats(df)
AnalyzeStats ==
    /\ p_pc = "done"
    /\ messages # <<>>
    /\ p_pc' = "stats"
    /\ all_emojis' = analyze_chat_stats(messages, 1, NoCounters).all_emojis
    /\ all_words' = analyze_chat_stats(messages, 1, NoCounters).all_words
    /\ UNCHANGED <<lines, line_num, messages, media_items, current_message, p_notices>>
    /\ UNCHANGED OutsideParse

ParseNext == ParseLine \/ ParseReturn \/ AnalyzeStats

-----------------------------------------------------------------------------
(* The thread reconstructor: MessageThread and process_message_threads *)

RECURSIVE Split(_)
\* str.split(): the runs of code points that are not white space
Split(s) ==
    IF s = <<>> THEN <<>>
    ELSE IF s[1] \in Whitespace THEN Split(Tail(s))
    ELSE LET end == RunEnd(s, 1, (UNION {{s[i]} : i \in 1..Len(s)}) \ Whitespace)
         IN  <<SubSeq(s, 1, end - 1)>> \o Split(From(s, end))

Range(f) == {f[i] : i \in DOMAIN f}

\* len(EMOJI_PATTERN.findall(message))
EmojiCount(message) == Cardinality({i \in 1..Len(message) : message[i] \in EmojiChars})

\* THREAD_WINDOW = pd.Timedelta(hours=4), in seconds
THREAD_WINDOW == 14400

\* MessageThread.is_related, for the thread seeded by original_message
is_related(original_message, message) ==
    LET orig_lower == Lower(original_message)
        msg_lower == Lower(message)
        common_words == Range(Split(orig_lower)) \cap Range(Split(msg_lower))
    IN  \/ StartsWith(message, <<"@">>)
        \/ Contains(msg_lower, Chars("replied to"))
        \/ Contains(msg_lower, orig_lower)
        \/ (Cardinality(common_words) >= 2 /\ ~(common_words \subseteq COMMON_WORDS))
        \/ (Contains(original_message, <<"?">>) /\ Len(Split(message)) <= 10)

\* is_active had it closed the window one instant earlier
is_active_before_window_end(thread, current_time) ==
    current_time - thread.start_time < THREAD_WINDOW

\* MessageThread.is_active
is_active(thread, current_time) == current_time - thread.start_time <= THREAD_WINDOW

\* MessageThread.__init__
MessageThread(message, timestamp, reactions) ==
    [original_message |-> message, start_time |-> timestamp, messages |-> <<>>,
     reactions |-> reactions]

\* MessageThread.add_message
add_message(thread, message, reactions) ==
    [thread EXCEPT !.messages = Append(@, message), !.reactions = @ + reactions]

\* is_significant had it asked for one reply only
is_significant_one_reply(thread) == Len(thread.messages) >= 1

\* to_viral_message had it counted the seed among the replies
to_viral_message_counting_seed(thread) ==
    [message |-> thread.original_message, replies |-> Len(thread.messages) + 1,
     reactions |-> thread.reactions, thread |-> thread.messages]

\* MessageThread.is_significant
is_significant(thread) == Len(thread.messages) >= 2

\* MessageThread.to_viral_message
to_viral_message(thread) ==
    [message |-> thread.original_message, replies |-> Len(thread.messages),
     reactions |-> thread.reactions, thread |-> thread.messages]

\* the skip of the rows had it looked for system messages only
SkippedSystemOnly(message) == SYSTEM_MESSAGE_PATTERNS(message)

\* the row is skipped: a system message or fewer than 3 tokens
Skipped(message) == SYSTEM_MESSAGE_PATTERNS(message) \/ Len(Split(message)) < 3

None == [none |-> TRUE]

MaxRows == 3

\* the message texts the rows of messages_df are made of here
ThreadTexts ==
    << Chars("hello there"),
       Chars("hello there too"),
       Chars("oh hello there friends ") \o <<"EMO1">>,
       Chars("what about lunch today?"),
       Chars("@bob you and me"),
       Chars("I replied to them"),
       Chars("you and me"),
       Chars("Alice created this group"),
       Chars("so You and me ") \o <<"EMO1", " ", "EMO2">>,
       Chars("one two three four five six seven eight nine ten eleven") >>

TextIds == 1..Len(ThreadTexts)

\* the timestamps of the rows, in seconds from the first: the same instant, the
\* last instant of the window and the first instant after it
ThreadTimes == {0, THREAD_WINDOW, THREAD_WINDOW + 1}

\* is_related, Skipped and EmojiCount of the texts of ThreadTexts, computed once
RelatedTable == [a \in TextIds |-> [b \in TextIds |-> is_related(ThreadTexts[a], ThreadTexts[b])]]
SkippedTable == [a \in TextIds |-> Skipped(ThreadTexts[a])]
EmojiTable == [a \in TextIds |-> EmojiCount(ThreadTexts[a])]

Rows == [message : TextIds, timestamp : ThreadTimes]

MaxBurstRows == 12

\* the rows of a burst: messages of one instant, "hello there too" and
\* "so You and me" with its two emojis, each related to itself only
BurstRows == [message : {2, 9}, timestamp : {0}]

\* messages_df is df.sort_values('timestamp'): rows in timestamp order, rows of
\* equal timestamps in any order
ThreadInit ==
    /\ messages_df \in {r \in SeqsUpTo(Rows, MaxRows) :
                          \A i \in 1..(Len(r) - 1) : r[i].timestamp <= r[i + 1].timestamp}
                       \cup SeqsUpTo(BurstRows, MaxBurstRows)
    /\ row_num = 1
    /\ current_thread = None
    /\ viral_messages = <<>>
    /\ t_result = <<>>
    /\ t_pc = "rows"

ThreadIdle ==
    /\ messages_df = <<>>
    /\ row_num = 1
    /\ current_thread = None
    /\ viral_messages = <<>>
    /\ t_result = <<>>
    /\ t_pc = "idle"

\* the message of the row joins current_thread
Joins(thread, row) ==
    /\ thread # None
    /\ is_active(thread, row.timestamp)
    /\ RelatedTable[thread.original_message][row.message]

\* the closing of current_thread had it emitted every thread
ClosedWhateverItsSize(viral, thread) ==
    IF thread # None THEN Append(viral, to_viral_message(thread)) ELSE viral

\* viral_messages after current_thread is closed
Closed(viral, thread) ==
    IF thread # None /\ is_significant(thread)
    THEN Append(viral, to_viral_message(thread)) ELSE viral

\* one turn of the loop 'for _, row in messages_df.iterrows()'
ThreadRow ==
    /\ t_pc = "rows"
    /\ row_num <= Len(messages_df)
    /\ LET row == messages_df[row_num]
       IN  IF SkippedTable[row.message]
           THEN UNCHANGED <<current_thread, viral_messages>>
           ELSE IF Joins(current_thread, row)
           THEN /\ current_thread' = add_message(current_thread, row.message,
                                                 EmojiTable[row.message])
                /\ UNCHANGED viral_messages
           ELSE /\ viral_messages' = Closed(viral_messages, current_thread)
                /\ current_thread' = MessageThread(row.message, row.timestamp,
                                                   EmojiTable[row.message])
    /\ row_num' = row_num + 1
    /\ UNCHANGED <<messages_df, t_result, t_pc>>
    /\ UNCHANGED OutsideThread

\* the sort key had it been the replies alone
EngagementOfReplies(v) == v.replies

\* the sort key of the viral messages
Engagement(v) == v.replies + v.reactions

RECURSIVE SortedByEngagement(_)
\* sorted(viral_messages, key=lambda x: x.replies + x.reactions, reverse=True):
\* a stable sort, threads of equal engagement keep their order
SortedByEngagement(list) ==
    IF list = <<>> THEN <<>>
    ELSE LET rest == SortedByEngagement(SubSeq(list, 1, Len(list) - 1))
             last == list[Len(list)]
             before == {i \in 1..Len(rest) : Engagement(rest[i]) >= Engagement(last)}
             n == Cardinality(before)
         IN  SubSeq(rest, 1, n) \o <<last>> \o From(rest, n + 1)

\* list[:n]
Take(list, n) == SubSeq(list, 1, IF Len(list) < n THEN Len(list) ELSE n)

TopThreads == 3

\* the end of process_message_threads: the final thread, the sort, the top 3
ThreadReturn ==
    /\ t_pc = "rows"
    /\ row_num > Len(messages_df)
    /\ viral_messages' = Closed(viral_messages, current_thread)
    /\ t_result' = Take(SortedByEngagement(Closed(viral_messages, current_thread)), TopThreads)
    /\ t_pc' = "done"
    /\ UNCHANGED <<messages_df, row_num, current_thread>>
    /\ UNCHANGED OutsideThread

ThreadNext == ThreadRow \/ ThreadReturn

-----------------------------------------------------------------------------
(* The shared links of analyze_chat: link_stats in two passes, shared_links *)

\* the end of the run of \S that starts at pos: the first position at or after
\* pos that holds white space, or the position after the text
NonSpaceEnd(s, pos) ==
    LET stop == {k \in pos..(Len(s) + 1) : k > Len(s) \/ s[k] \in Whitespace}
    IN  CHOOSE k \in stop : \A j \in stop : k <= j

\* the position after https?:// when it stands at pos, 0 when it does not
SchemeEnd(s, pos) ==
    IF OccursAt(Chars("https://"), s, pos) THEN pos + 8
    ELSE IF OccursAt(Chars("http://"), s, pos) THEN pos + 7
    ELSE 0

\* url_pattern matches at pos, its scheme ending before position after
UrlAt(s, pos, after) == after # 0 /\ NonSpaceEnd(s, after) > after

RECURSIVE FindUrls(_, _)
\* url_pattern.findall(message), from pos on
FindUrls(s, pos) ==
    IF pos > Len(s) THEN <<>>
    ELSE IF UrlAt(s, pos, SchemeEnd(s, pos))
    THEN <<SubSeq(s, pos, NonSpaceEnd(s, SchemeEnd(s, pos)) - 1)>>
             \o FindUrls(s, NonSpaceEnd(s, SchemeEnd(s, pos)))
    ELSE FindUrls(s, pos + 1)

\* the first pass had it taken the context of a link from its latest message
OccurrenceTakingContext(stats, url, message, reactions) ==
    IF \E k \in 1..Len(stats) : stats[k].url = url
    THEN [k \in 1..Len(stats) |->
             IF stats[k].url = url
             THEN [stats[k] EXCEPT !.reactions = @ + reactions, !.context = message]
             ELSE stats[k]]
    ELSE Append(stats, [url |-> url, replies |-> 0, reactions |-> reactions,
                        context |-> message])

\* the first pass for one url of a message: link_stats, a dict in the order
\* of its insertions, after `if url not in link_stats: ... else: ...`
Occurrence(stats, url, message, reactions) ==
    IF \E k \in 1..Len(stats) : stats[k].url = url
    THEN [k \in 1..Len(stats) |->
             IF stats[k].url = url THEN [stats[k] EXCEPT !.reactions = @ + reactions]
             ELSE stats[k]]
    ELSE Append(stats, [url |-> url, replies |-> 0, reactions |-> reactions,
                        context |-> message])

RECURSIVE Occurrences(_, _, _, _)
\* the loop `for url in urls` of the first pass
Occurrences(stats, urls, message, reactions) ==
    IF urls = <<>> THEN stats
    ELSE Occurrences(Occurrence(stats, Head(urls), message, reactions), Tail(urls),
                     message, reactions)

\* `url.lower() in message` of the second pass
Mentions(url, message) == Contains(Lower(message), Lower(url))

\* the window of the second pass had it begun at the mention itself
InWindowFromStart(thread_start, timestamp) ==
    timestamp >= thread_start /\ timestamp <= thread_start + THREAD_WINDOW

\* the condition of thread_messages for one row
InWindow(thread_start, timestamp) ==
    timestamp > thread_start /\ timestamp <= thread_start + THREAD_WINDOW

\* thread_messages: the rows of the window that follows thread_start
thread_messages(df, thread_start) ==
    {j \in 1..Len(df) : InWindow(thread_start, df[j].timestamp)}

MaxLinkRows == 3

\* the message texts the rows of messages_by_time are made of here
LinkTexts ==
    << Chars("see https://a.io ") \o <<"EMO1">>,
       Chars("https://a.io or https://a.io ") \o <<"EMO2">>,
       Chars("again HTTPS://A.IO/x"),
       Chars("nice ") \o <<"EMO1", " ", "EMO2">>,
       Chars("http://b.io/Path and https://a.io"),
       Chars("ok https://") >>

LinkTextIds == 1..Len(LinkTexts)

\* the timestamps of the rows, in seconds from the first
LinkTimes == {0, 1, THREAD_WINDOW, THREAD_WINDOW + 1}

\* url_pattern.findall and the emoji count of the texts of LinkTexts, computed once
UrlsTable == [a \in LinkTextIds |-> FindUrls(LinkTexts[a], 1)]
LinkEmojiTable == [a \in LinkTextIds |-> EmojiCount(LinkTexts[a])]

LinkRows == [message : LinkTextIds, timestamp : LinkTimes]

RECURSIVE EmojisOfRows(_, _)
\* sum(len(EMOJI_PATTERN.findall(m)) for m in thread_messages['message'])
EmojisOfRows(df, rows) ==
    IF rows = {} THEN 0
    ELSE LinkEmojiTable[df[CHOOSE j \in rows : TRUE].message]
             + EmojisOfRows(df, rows \ {CHOOSE j \in rows : TRUE})

\* the second pass for one url and one row: stats after `if url.lower() in message:`
WithReplies(stats, df, row) ==
    IF Mentions(stats.url, LinkTexts[row.message])
    THEN [stats EXCEPT
             !.replies = @ + Cardinality(thread_messages(df, row.timestamp)),
             !.reactions = @ + EmojisOfRows(df, thread_messages(df, row.timestamp))]
    ELSE stats

\* messages_by_time is df.sort_values('timestamp')
LinkInit ==
    /\ messages_by_time \in
           {r \in SeqsUpTo(LinkRows, MaxLinkRows) :
               \A i \in 1..(Len(r) - 1) : r[i].timestamp <= r[i + 1].timestamp}
    /\ link_row = 1
    /\ link_stats = <<>>
    /\ link_url = 1
    /\ link_ref = 1
    /\ shared_links = <<>>
    /\ l_pc = "links"

LinkIdle ==
    /\ messages_by_time = <<>>
    /\ link_row = 1
    /\ link_stats = <<>>
    /\ link_url = 1
    /\ link_ref = 1
    /\ shared_links = <<>>
    /\ l_pc = "idle"

\* one turn of the loop of the first pass
FirstPass ==
    /\ l_pc = "links"
    /\ link_row <= Len(messages_by_time)
    /\ link_stats' = Occurrences(link_stats, UrlsTable[messages_by_time[link_row].message],
                                  messages_by_time[link_row].message,
                                  LinkEmojiTable[messages_by_time[link_row].message])
    /\ link_row' = link_row + 1
    /\ UNCHANGED <<messages_by_time, link_url, link_ref, shared_links, l_pc>>
    /\ UNCHANGED OutsideLink

\* one turn of the inner loop of the second pass: the url at link_url, the row
\* at link_ref
SecondPass ==
    /\ l_pc = "links"
    /\ link_row > Len(messages_by_time)
    /\ link_url <= Len(link_stats)
    /\ link_stats' = [link_stats EXCEPT
                         ![link_url] = WithReplies(@, messages_by_time,
                                                   messages_by_time[link_ref])]
    /\ IF link_ref < Len(messages_by_time)
       THEN link_ref' = link_ref + 1 /\ UNCHANGED link_url
       ELSE link_ref' = 1 /\ link_url' = link_url + 1
    /\ UNCHANGED <<messages_by_time, link_row, shared_links, l_pc>>
    /\ UNCHANGED OutsideLink

TopLinks == 10

\* shared_links: the SharedLink objects, sorted by engagement, the top 10
LinksReturn ==
    /\ l_pc = "links"
    /\ link_row > Len(messages_by_time)
    /\ link_url > Len(link_stats)
    /\ shared_links' = Take(SortedByEngagement(link_stats), TopLinks)
    /\ l_pc' = "done"
    /\ UNCHANGED <<messages_by_time, link_row, link_stats, link_url, link_ref>>
    /\ UNCHANGED OutsideLink

LinkNext == FirstPass \/ SecondPass \/ LinksReturn

-----------------------------------------------------------------------------
(* The sentiment pipeline: analyze_sentiment_batch, analyze_sentiment_parallel *)

\* the message texts of the days
SentTexts ==
    << Chars("good day"),
       Chars("bad day"),
       Chars("[Media: IMAGE] shared by Alice"),
       Chars("Bob: image omitted"),
       Chars("lunch?") >>

\* msg.startswith('[Media:') or MEDIA_PATTERN.match(msg), of the texts of SentTexts
MediaTextTable ==
    [msg \in 1..Len(SentTexts) |->
        StartsWith(SentTexts[msg], Chars("[Media:")) \/ MEDIA_PATTERN(SentTexts[msg]).matched]

NotMediaText(msg) == ~MediaTextTable[msg]

\* Floats are counted in tenths.  float('nan') is a float too: this number
\* stands for it, and it is never compared as a number
NaN == 99

\* a < b and a <= b of two floats: False when one of them is NaN
lt(a, b) == a # NaN /\ b # NaN /\ a < b

le(a, b) == a # NaN /\ b # NaN /\ a <= b

\* min(a, b) of two floats: a unless b < a
min(a, b) == IF lt(b, a) THEN b ELSE a

\* max(a, b) of two floats: a unless b > a
max(a, b) == IF lt(a, b) THEN b ELSE a

\* max(min(response.score, 1.0), -1.0)
ClampScore(score) == max(min(score, 10), -10)

\* -1.0 <= score <= 1.0
InUnitRange(score) == le(-10, score) /\ le(score, 10)

\* what client.chat.completions.create can do: answer with a score (a float, in
\* range or not), raise one of ConnectionError, TimeoutError, ValueError ("error"), or
\* raise another exception ("fault")
Replies ==
    {[kind |-> "score", score |-> r] : r \in {-20, 7, 20, NaN}} \cup
    {[kind |-> "error", score |-> 0], [kind |-> "fault", score |-> 0]}

\* analyze_sentiment_batch had it not looked into sentiment_cache
BatchOutcomeWithoutLookup(filtered_messages, reply, cache) ==
    IF filtered_messages = <<>>
    THEN [path |-> "empty", score |-> 0, cache |-> cache]
    ELSE IF reply.kind = "fault"
    THEN [path |-> "fault", score |-> 0, cache |-> cache]
    ELSE IF reply.kind = "error"
    THEN [path |-> "failed", score |-> 0, cache |-> cache]
    ELSE [path |-> "remote", score |-> ClampScore(reply.score),
          cache |-> (filtered_messages :> ClampScore(reply.score)) @@ cache]

\* analyze_sentiment_batch after the filter; the cache key hash(tuple(...)) is
\* the tuple itself
BatchOutcome(filtered_messages, reply, cache) ==
    IF filtered_messages = <<>>
    THEN [path |-> "empty", score |-> 0, cache |-> cache]
    ELSE IF filtered_messages \in DOMAIN cache
    THEN [path |-> "hit", score |-> cache[filtered_messages], cache |-> cache]
    ELSE IF reply.kind = "fault"
    THEN [path |-> "fault", score |-> 0, cache |-> cache]
    ELSE IF reply.kind = "error"
    THEN [path |-> "failed", score |-> 0, cache |-> cache]
    ELSE [path |-> "remote", score |-> ClampScore(reply.score),
          cache |-> (filtered_messages :> ClampScore(reply.score)) @@ cache]

\* analyze_sentiment_batch had it kept the media messages in the batch
analyze_sentiment_batch_unfiltered(messages_batch, reply, cache) ==
    BatchOutcome(messages_batch, reply, cache)

analyze_sentiment_batch(messages_batch, reply, cache) ==
    BatchOutcome(SelectSeq(messages_batch, NotMediaText), reply, cache)

MaxDates == 12

\* the messages of a day, as numbers of SentTexts
ShortA == <<1>>
ShortB == <<2>>
ShortC == <<5>>
ShortD == <<1, 2>>
FiveDay == <<1, 2, 5, 2, 1>>
LongDay == <<1, 2, 5, 1, 2, 5>>
SevenDay == <<1, 3, 2, 4, 5, 1, 2>>
MediaDay == <<3, 4>>

\* the days of a chat repeat one of these patterns
DayPatterns ==
    << <<LongDay>>,
       <<MediaDay, MediaDay, MediaDay, ShortA, ShortA, ShortA, ShortA, ShortA, ShortA,
         ShortA, ShortA, ShortA>>,
       <<LongDay, FiveDay, SevenDay, ShortD, MediaDay, LongDay>>,
       <<ShortA, ShortB, ShortC, ShortD, ShortD, ShortD>> >>

\* the days of a long chat are all alike
PlainDay == ShortA

MaxPlainDates == 16

\* daily_messages with its dates in order: date number i is the i-th key of
\* sorted(daily_messages.keys())
SentInputs ==
    {[i \in 1..n |-> DayPatterns[p][((i - 1) % Len(DayPatterns[p])) + 1]] :
        n \in 1..MaxDates, p \in 1..Len(DayPatterns)} \cup
    {[i \in 1..n |-> PlainDay] : n \in 1..MaxPlainDates}

RECURSIVE GroupDates(_, _, _, _)
\* the loop 'for i, date in enumerate(dates)' that fills date_groups
GroupDates(dates, i, current_group, groups) ==
    IF i > Len(dates) THEN groups
    ELSE IF Len(current_group) + 1 = 3 \/ i = Len(dates)
    THEN GroupDates(dates, i + 1, <<>>, Append(groups, Append(current_group, dates[i])))
    ELSE GroupDates(dates, i + 1, Append(current_group, dates[i]), groups)

\* the grouping had it made a group of every date
DateGroupsByOne(d) == [i \in 1..Len(d) |-> <<i>>]

\* date_groups of the daily messages d
DateGroups(d) == GroupDates([i \in 1..Len(d) |-> i], 1, <<>>, <<>>)

\* a semaphore of one permit more
SemaphoreOfSix == 5 + 1

\* asyncio.Semaphore(5)
Semaphore == 5

\* analyze_sentiment_parallel is entered with one of the inputs
SentStart(inputs) ==
    /\ daily_messages \in inputs
    /\ semaphore = Semaphore
    /\ tasks = [g \in 1..Len(DateGroups(daily_messages)) |->
                  [dates |-> DateGroups(daily_messages)[g], pc |-> "waiting", i |-> 1,
                   group_messages |-> <<>>, batch_results |-> <<>>]]
    /\ sentiment_cache = <<>>
    /\ sentiment_data = <<>>
    /\ batch_returns = {}
    /\ s_pc = "running"
    /\ saddest_days = <<>>
    /\ happiest_days = <<>>
    /\ sentiment_over_time = <<>>

SentInit == SentStart(SentInputs)

\* a long chat of days of media messages, but for two days of one message
GateDays ==
    [i \in 1..MaxPlainDates |->
        IF i \in {MaxPlainDates - 3, MaxPlainDates} THEN PlainDay ELSE MediaDay]

\* the chats made of the last days of the long chat
GateInputs == {SubSeq(GateDays, k, MaxPlainDates) : k \in 1..MaxPlainDates}

SentGateInit == SentStart(GateInputs)

SentIdle ==
    /\ daily_messages = <<>>
    /\ semaphore = 0
    /\ tasks = <<>>
    /\ sentiment_cache = <<>>
    /\ sentiment_data = <<>>
    /\ batch_returns = {}
    /\ s_pc = "idle"
    /\ saddest_days = <<>>
    /\ happiest_days = <<>>
    /\ sentiment_over_time = <<>>

\* the sampling had it taken every message of a day twice
SamplesWithRepeats(day_messages) == day_messages \o day_messages

\* the representative messages of a day
Samples(day_messages) ==
    IF Len(day_messages) > 5
    THEN << day_messages[1],
            day_messages[(Len(day_messages) \div 4) + 1],
            day_messages[(Len(day_messages) \div 2) + 1],
            day_messages[((3 * Len(day_messages)) \div 4) + 1],
            day_messages[Len(day_messages)] >>
    ELSE day_messages

RECURSIVE Collect(_, _, _)
\* the loop 'for date in dates' from the date number i on, up to its next call
\* of analyze_sentiment_batch: flush says the call is the one inside the loop,
\* made at the date number i
Collect(dates, i, group_messages) ==
    IF i > Len(dates) THEN [i |-> i, group_messages |-> group_messages, flush |-> FALSE]
    ELSE IF Len(group_messages) + Len(Samples(daily_messages[dates[i]])) >= 15
    THEN [i |-> i, group_messages |-> group_messages \o Samples(daily_messages[dates[i]]),
          flush |-> TRUE]
    ELSE Collect(dates, i + 1, group_messages \o Samples(daily_messages[dates[i]]))

\* 'async with semaphore': the task gets a permit
Acquire(g) ==
    /\ tasks[g].pc = "waiting"
    /\ semaphore > 0
    /\ semaphore' = semaphore - 1
    /\ tasks' = [tasks EXCEPT ![g].pc = "inside"]
    /\ UNCHANGED <<daily_messages, sentiment_cache, sentiment_data, s_pc, batch_returns>>
    /\ UNCHANGED rankVars
    /\ UNCHANGED OutsideSent

\* the attribution had the call inside the loop left out the current date
AttributedBefore(dates, at, batch_results) ==
    IF at.flush
    THEN SelectSeq(dates, LAMBDA d : d < dates[at.i])
    ELSE SelectSeq(dates, LAMBDA d : \A k \in 1..Len(batch_results) : batch_results[k].date # d)

\* the dates the call attributes its score to: those up to the current date
\* after the call inside the loop, those without a result after the last call
Attributed(dates, at, batch_results) ==
    IF at.flush
    THEN SelectSeq(dates, LAMBDA d : d <= dates[at.i])
    ELSE SelectSeq(dates, LAMBDA d : \A k \in 1..Len(batch_results) : batch_results[k].date # d)

\* batch_results after the call gave sentiment to the dates
Extended(batch_results, dates, sentiment) ==
    batch_results \o [k \in 1..Len(dates) |-> [date |-> dates[k], sentiment |-> sentiment]]

\* the task after its call returned out, the call having been made at 'at': it
\* goes on inside the gate when dates are left after a call inside the loop
AfterCall(task, at, out) ==
    [dates |-> task.dates,
     pc |-> IF at.flush /\ at.i < Len(task.dates) THEN "inside" ELSE "done",
     i |-> IF at.flush THEN at.i + 1 ELSE at.i,
     group_messages |-> <<>>,
     batch_results |-> Extended(task.batch_results,
                                Attributed(task.dates, at, task.batch_results), out.score)]

\* the call had a task that fails kept its permit
CalledKeepingPermit(g, at, out) ==
    IF out.path = "fault"
    THEN /\ tasks' = [tasks EXCEPT ![g].pc = "failed"]
         /\ UNCHANGED <<semaphore, sentiment_cache, batch_returns>>
    ELSE /\ tasks' = [tasks EXCEPT ![g] = AfterCall(tasks[g], at, out)]
         /\ semaphore' = IF at.flush /\ at.i < Len(tasks[g].dates)
                         THEN semaphore ELSE semaphore + 1
         /\ sentiment_cache' = out.cache
         /\ batch_returns' = batch_returns \cup {[path |-> out.path, score |-> out.score]}

\* the task calls analyze_sentiment_batch, which returns out or raises
Called(g, at, out) ==
    IF out.path = "fault"
    THEN /\ tasks' = [tasks EXCEPT ![g].pc = "failed"]
         /\ semaphore' = semaphore + 1
         /\ UNCHANGED <<sentiment_cache, batch_returns>>
    ELSE /\ tasks' = [tasks EXCEPT ![g] = AfterCall(tasks[g], at, out)]
         /\ semaphore' = IF at.flush /\ at.i < Len(tasks[g].dates)
                         THEN semaphore ELSE semaphore + 1
         /\ sentiment_cache' = out.cache
         /\ batch_returns' = batch_returns \cup {[path |-> out.path, score |-> out.score]}

\* the task returns without a call: no messages are left
Returned(g, at) ==
    /\ tasks' = [tasks EXCEPT ![g].pc = "done", ![g].i = at.i]
    /\ semaphore' = semaphore + 1
    /\ UNCHANGED <<sentiment_cache, batch_returns>>

\* the task, inside the gate, runs up to its next call and through it
RunFrom(g, at, reply) ==
    IF at.flush \/ at.group_messages # <<>>
    THEN Called(g, at, analyze_sentiment_batch(at.group_messages, reply, sentiment_cache))
    ELSE Returned(g, at)

\* process_date_group inside 'async with semaphore', up to the end of its next
\* 'await analyze_sentiment_batch(...)'; the permit is released on the way out
TaskStep(g) ==
    /\ tasks[g].pc = "inside"
    /\ \E reply \in Replies :
          RunFrom(g, Collect(tasks[g].dates, tasks[g].i, tasks[g].group_messages), reply)
    /\ UNCHANGED <<daily_messages, sentiment_data, s_pc>>
    /\ UNCHANGED rankVars
    /\ UNCHANGED OutsideSent

RECURSIVE Flatten(_, _)
\* the (date, sentiment) pairs of results, group after group, from the group g on
Flatten(results, g) ==
    IF g > Len(results) THEN <<>> ELSE results[g].batch_results \o Flatten(results, g + 1)

\* SentimentData(date=str(date), sentiment=sentiment, messages=messages[:n])
SentimentData(r, n) ==
    [date |-> r.date, sentiment |-> r.sentiment, messages |-> Take(daily_messages[r.date], n)]

\* the first loop over results: every pair, with messages[:3]
AllEntries(flat) == [k \in 1..Len(flat) |-> SentimentData(flat[k], 3)]

RECURSIVE FirstPerDate(_, _, _)
\* the second loop over results: the first pair of each date, with messages[:2]
FirstPerDate(flat, k, seen_dates) ==
    IF k > Len(flat) THEN <<>>
    ELSE IF flat[k].date \in seen_dates THEN FirstPerDate(flat, k + 1, seen_dates)
    ELSE <<SentimentData(flat[k], 2)>> \o FirstPerDate(flat, k + 1, seen_dates \cup {flat[k].date})

\* list, sorted by date, with entry put after the entries of dates up to its own
SortedInsert(list, entry) ==
    SubSeq(list, 1, Cardinality({i \in 1..Len(list) : list[i].date <= entry.date}))
    \o <<entry>>
    \o From(list, Cardinality({i \in 1..Len(list) : list[i].date <= entry.date}) + 1)

RECURSIVE SortedByDate(_)
\* sorted(sentiment_data, key=lambda x: x.date): a stable sort; the ISO text of
\* a date orders as the date does
SortedByDate(list) ==
    IF list = <<>> THEN <<>>
    ELSE SortedInsert(SortedByDate(SubSeq(list, 1, Len(list) - 1)), list[Len(list)])

\* the gathered results as the list analyze_sentiment_parallel returns
Merged(flat) == SortedByDate(AllEntries(flat) \o FirstPerDate(flat, 1, {}))

\* 'await asyncio.gather(*tasks)' has every result: both loops and the sort
SentReturn ==
    /\ s_pc = "running"
    /\ \A g \in 1..Len(tasks) : tasks[g].pc = "done"
    /\ sentiment_data' = Merged(Flatten(tasks, 1))
    /\ s_pc' = "done"
    /\ UNCHANGED <<daily_messages, semaphore, tasks, sentiment_cache, batch_returns>>
    /\ UNCHANGED rankVars
    /\ UNCHANGED OutsideSent

\* 'await asyncio.gather(*tasks)' raises what a task raised; the other tasks go on
SentRaise ==
    /\ s_pc = "running"
    /\ \E g \in 1..Len(tasks) : tasks[g].pc = "failed"
    /\ s_pc' = "raised"
    /\ UNCHANGED <<daily_messages, semaphore, tasks, sentiment_cache, sentiment_data,
                   batch_returns>>
    /\ UNCHANGED rankVars
    /\ UNCHANGED OutsideSent

\* list[::-1]
Reversed(list) == [i \in 1..Len(list) |-> list[Len(list) + 1 - i]]

\* list[-n:]
Last(list, n) == SubSeq(list, IF Len(list) < n THEN 1 ELSE Len(list) - n + 1, Len(list))

RECURSIVE CountRun(_, _, _)
\* the length of the run list.sort finds at the head of the list: it goes on
\* from k while 'list[k] < list[k-1]' is what it was for the first pair
CountRun(list, k, descending) ==
    IF k > Len(list) THEN k - 1
    ELSE IF lt(list[k].sentiment, list[k - 1].sentiment) = descending
    THEN CountRun(list, k + 1, descending)
    ELSE k - 1

\* the list with its head run of n elements in ascending order
HeadRunAscending(list, n, descending) ==
    IF descending THEN Reversed(SubSeq(list, 1, n)) \o From(list, n + 1) ELSE list

RECURSIVE Bisect(_, _, _, _)
\* the place of pivot among list[l..r-1] by binary search with '<'
Bisect(list, pivot, l, r) ==
    IF l >= r THEN l
    ELSE IF lt(pivot, list[l + (r - l) \div 2].sentiment)
    THEN Bisect(list, pivot, l, l + (r - l) \div 2)
    ELSE Bisect(list, pivot, l + (r - l) \div 2 + 1, r)

\* list with its element at start moved to pos
MovedTo(list, start, pos) ==
    SubSeq(list, 1, pos - 1) \o <<list[start]>> \o SubSeq(list, pos, start - 1)
    \o From(list, start + 1)

RECURSIVE BinarySort(_, _)
\* binary insertion of the elements from start on into the sorted head
BinarySort(list, start) ==
    IF start > Len(list) THEN list
    ELSE BinarySort(MovedTo(list, start, Bisect(list, list[start].sentiment, 1, start)),
                    start + 1)

\* the sort of a run found at the head: the run put in ascending order, the
\* rest inserted
SortFromRun(list, n, descending) == BinarySort(HeadRunAscending(list, n, descending), n + 1)

\* the run of the first pair
SortFromPair(list, descending) == SortFromRun(list, CountRun(list, 3, descending), descending)

\* sentiment_data.sort(key=lambda x: x.sentiment), as list.sort of CPython
\* sorts a list of fewer than 64 elements: the head run, then binary
\* insertion, every comparison being '<' of two keys
SortedBySentiment(list) ==
    IF Len(list) < 2 THEN list
    ELSE SortFromPair(list, lt(list[2].sentiment, list[1].sentiment))

\* analyze_chat after 'await analyze_sentiment_parallel(...)': the list is
\* sorted by sentiment in place, the 3 first and the 3 last of it are the
\* saddest and happiest days, and the summary's sentiment_over_time is it
\* sorted by date
RankDays ==
    /\ s_pc = "done"
    /\ s_pc' = "ranked"
    /\ sentiment_data' = SortedBySentiment(sentiment_data)
    /\ saddest_days' = Take(SortedBySentiment(sentiment_data), 3)
    /\ happiest_days' = Reversed(Last(SortedBySentiment(sentiment_data), 3))
    /\ sentiment_over_time' = SortedByDate(SortedBySentiment(sentiment_data))
    /\ UNCHANGED <<daily_messages, semaphore, tasks, sentiment_cache, batch_returns>>
    /\ UNCHANGED OutsideSent

SentNext ==
    \/ \E g \in 1..Len(tasks) : Acquire(g)
    \/ \E g \in 1..Len(tasks) : TaskStep(g)
    \/ SentReturn
    \/ SentRaise
    \/ RankDays

-----------------------------------------------------------------------------
(* The request handler analyze_chat and the result cache *)

MaxRequests == 3

\* the uploaded contents, as lines of ChatLines: two chats, a text without a
\* message, and the empty upload (''.split('\n') is one empty line)
Contents == << <<1, 2>>, <<7>>, <<5>>, <<9>> >>

\* calculate_md5 of the contents (their lines joined by '\n', in UTF-8)
calculate_md5 ==
    << "efc9851544736ac379f1a7fcaf6ceed6",
       "4971752f3f9d14f98253e8712d991f65",
       "9883aae059ae74cb2d0cd1056f2b4039",
       "d41d8cd98f00b204e9800998ecf8427e" >>

FileHashes == {calculate_md5[c] : c \in 1..Len(Contents)}

RECURSIVE ParseLines(_, _, _)
\* the loop of parse_whatsapp_chat over the lines of a content
ParseLines(content, k, st) ==
    IF k > Len(content) THEN st
    ELSE ParseLines(content, k + 1, ProcessLine(st, ChatLines[content[k]], Tokenized[content[k]]))

\* df of parse_whatsapp_chat(chat_text), of each content
ParsedTable ==
    [c \in 1..Len(Contents) |->
        ParseLines(Contents[c], 1,
                   [messages |-> <<>>, media_items |-> <<>>, current_message |-> <<>>,
                    notices |-> {}, matched |-> FALSE]).messages]

\* the prompt analyze_chat builds from a content, by number. The messages of
\* each of these chats are of one day, so that the five periods of the sampling
\* take all of them and no random sample (df.sample) is drawn
Prompts == << {1}, {2}, {}, {} >>

\* the prompt of a request: no prompt is built from an empty df, and 1 stands
\* for the one that is never used
PromptChoices(c) == IF Prompts[c] = {} THEN {1} ELSE Prompts[c]

AllPrompts == UNION {Prompts[c] : c \in 1..Len(Contents)}

\* what the insight collaborator can answer; 0 stands for no answer
InsightReplies == {1, 2}

\* what analyze_sentiment_parallel can return for a chat, in tenths: the
\* neutral score of a failed call, or a score
SentimentOutcomes == {0, 7}

NoSummary == [activity_by_date |-> 0, chat_poem |-> 0, sentiment_over_time |-> 0]

\* ChatSummary(...): the fields computed from the messages, the insights and
\* the sentiment
ChatSummary(df, response, sentiment) ==
    [activity_by_date |-> Len(df), chat_poem |-> response, sentiment_over_time |-> sentiment]

NoFile == [kind |-> "absent"]

\* a file a failed write left behind: it does not load as JSON
BrokenFile == [kind |-> "broken"]

\* a file that loads as JSON and is no ChatSummary (say, of another version)
InvalidFile == [kind |-> "invalid"]

\* ChatSummary(**data) raises in get_cached_result: a pydantic ValidationError,
\* a ValueError that get_cached_result does not catch
CacheReadRaises(file) == file.kind = "invalid"

\* json.dump(result.dict(), f): the file lists the fields by name
JsonFile(result) ==
    [kind |-> "json",
     data |-> << <<"activity_by_date", result.activity_by_date>>,
                 <<"chat_poem", result.chat_poem>>,
                 <<"sentiment_over_time", result.sentiment_over_time>> >>]

\* data[name] of the loaded file
Field(data, name) == data[CHOOSE k \in 1..Len(data) : data[k][1] = name][2]

\* get_cached_result: ChatSummary(**json.load(f)) of a file that exists and
\* loads, None (NoSummary) otherwise
get_cached_result(file) ==
    IF file.kind = "json"
    THEN [activity_by_date |-> Field(file.data, "activity_by_date"),
          chat_poem |-> Field(file.data, "chat_poem"),
          sentiment_over_time |-> Field(file.data, "sentiment_over_time")]
    ELSE NoSummary

\* save_to_cache under what the disk does: the file is written, open() fails
\* and nothing changes, or writing fails and leaves a broken file
save_to_cache(cache, file_hash, result, disk) ==
    CASE disk = "written" -> [cache EXCEPT ![file_hash] = JsonFile(result)]
      [] disk = "refused" -> cache
      [] disk = "failed" -> [cache EXCEPT ![file_hash] = BrokenFile]

Disk == {"written", "refused", "failed"}

NoCalls == [parse |-> 0, insight |-> 0, sentiment |-> 0]

\* JSONResponse(content={"md5": file_hash, **summary})
JSONResponse(file_hash, summary) ==
    [status |-> 200, md5 |-> file_hash, summary |-> summary, detail |-> ""]

\* HTTPException(status_code=500, detail=str(e)) of a fault
ServerError == [status |-> 500, md5 |-> "", summary |-> NoSummary, detail |-> "fault"]

\* HTTPException(status_code=500, detail=str(e)) where e is the
\* HTTPException(status_code=400, detail="No messages could be parsed ...")
NotValidExport ==
    [status |-> 500, md5 |-> "", summary |-> NoSummary,
     detail |-> "No messages could be parsed from the chat file"]

NoResponse == [status |-> 0, md5 |-> "", summary |-> NoSummary, detail |-> ""]

\* a request; 'after', 'hit', 'read', 'write', 'calls' and 'stored' record what
\* happened to it: the requests that had stored before it started, the kind of
\* cache file it found, what the disk did with its write, the calls it made
NewRequest(c) ==
    [content |-> c, pc |-> "new", after |-> {}, hit |-> FALSE, read |-> "", write |-> "",
     insight |-> 0, calls |-> NoCalls, stored |-> NoSummary, response |-> NoResponse]

\* the cache files there can be before the first request: none, or a stale file
\* under the hash of the first content
StaleCaches ==
    {[h \in FileHashes |-> NoFile],
     [h \in FileHashes |-> IF h = calculate_md5[1] THEN InvalidFile ELSE NoFile]}

\* uploads of up to MaxRequests files, numbered in the order of their contents
ReqInit ==
    /\ requests \in {[r \in 1..Len(u) |-> NewRequest(u[r])] :
                        u \in {v \in SeqsUpTo(1..Len(Contents), MaxRequests) :
                                 \A k \in 1..(Len(v) - 1) : v[k] <= v[k + 1]}}
    /\ result_cache \in StaleCaches
    /\ insight_cache = [p \in AllPrompts |-> 0]

ReqIdle ==
    /\ requests = <<>>
    /\ result_cache = [h \in FileHashes |-> NoFile]
    /\ insight_cache = [p \in AllPrompts |-> 0]

\* the requests that had stored the summary of the same content and returned
StoredBefore(c) ==
    {q \in 1..Len(requests) :
        /\ requests[q].content = c
        /\ requests[q].pc = "done"
        /\ requests[q].stored # NoSummary}

\* the handler starts and 'await file.read()' returns
ReadFile(r) ==
    /\ requests[r].pc = "new"
    /\ requests' = [requests EXCEPT ![r].pc = "read",
                                    ![r].after = StoredBefore(requests[r].content)]
    /\ UNCHANGED <<result_cache, insight_cache>>
    /\ UNCHANGED OutsideReq

\* the cached result is returned
ReturnCached(req, memo, file_hash, cached_result) ==
    [req |-> [req EXCEPT !.pc = "done", !.hit = TRUE,
                         !.response = JSONResponse(file_hash, cached_result)],
     memo |-> memo]

\* the request fails: raise HTTPException(status_code=500, ...)
Fail(req, memo, calls, response) ==
    [req |-> [req EXCEPT !.pc = "done", !.calls = calls, !.response = response],
     memo |-> memo]

\* a get_chat_insights whose failure lets the handler go on without insights
InsightsGoingOn(req, memo, prompt, reply) ==
    [req |-> [req EXCEPT !.pc = "sentiment",
                         !.insight = IF memo[prompt] # 0 THEN memo[prompt] ELSE reply,
                         !.calls.parse = 1,
                         !.calls.insight = IF memo[prompt] # 0 THEN 0 ELSE 1],
     memo |-> IF memo[prompt] # 0 \/ reply = 0 THEN memo ELSE [memo EXCEPT ![prompt] = reply]]

\* get_chat_insights(prompt): its memo answers, or the collaborator is called
\* and answers (reply > 0) or raises (reply = 0); then the handler awaits
\* analyze_sentiment_parallel
Insights(req, memo, prompt, reply) ==
    IF memo[prompt] # 0
    THEN [req |-> [req EXCEPT !.pc = "sentiment", !.insight = memo[prompt],
                              !.calls.parse = 1],
          memo |-> memo]
    ELSE IF reply = 0
    THEN Fail(req, memo, [parse |-> 1, insight |-> 1, sentiment |-> 0], ServerError)
    ELSE [req |-> [req EXCEPT !.pc = "sentiment", !.insight = reply,
                              !.calls.parse = 1, !.calls.insight = 1],
          memo |-> [memo EXCEPT ![prompt] = reply]]

\* an analysis that asks for the insights before it looks at the length of df
AnalyzeAskingFirst(req, memo, df, prompt, reply) ==
    IF Len(df) = 0 /\ Insights(req, memo, prompt, reply).req.pc = "sentiment"
    THEN [req |-> [Insights(req, memo, prompt, reply).req EXCEPT
                      !.pc = "done", !.response = NotValidExport],
          memo |-> Insights(req, memo, prompt, reply).memo]
    ELSE Insights(req, memo, prompt, reply)

\* the analysis from the parse to 'await analyze_sentiment_parallel(...)'
Analyze(req, memo, df, prompt, reply) ==
    IF Len(df) = 0
    THEN Fail(req, memo, [parse |-> 1, insight |-> 0, sentiment |-> 0], NotValidExport)
    ELSE Insights(req, memo, prompt, reply)

\* the cache check with the file found under the hash, and what follows it
CacheCheck(req, memo, file, prompt, reply) ==
    IF CacheReadRaises(file)
    THEN Fail(req, memo, NoCalls, ServerError)
    ELSE IF get_cached_result(file) # NoSummary
    THEN ReturnCached(req, memo, calculate_md5[req.content], get_cached_result(file))
    ELSE Analyze(req, memo, ParsedTable[req.content], prompt, reply)

\* the request and the memo after a step of the handler
Goes(r, out, found) ==
    /\ requests' = [requests EXCEPT ![r] = [out.req EXCEPT !.read = found]]
    /\ insight_cache' = out.memo

\* from the file hash to the first await after it: the cache check, and on a
\* miss the parse, the statistics and the insights
Lookup(r) ==
    /\ requests[r].pc = "read"
    /\ \E prompt \in PromptChoices(requests[r].content), reply \in InsightReplies \cup {0} :
          Goes(r,
               CacheCheck(requests[r], insight_cache,
                          result_cache[calculate_md5[requests[r].content]], prompt, reply),
               result_cache[calculate_md5[requests[r].content]].kind)
    /\ UNCHANGED result_cache
    /\ UNCHANGED OutsideReq

\* the summary is built, saved and returned
Respond(r, file_hash, summary, disk) ==
    /\ requests' = [requests EXCEPT
                      ![r].pc = "done", ![r].calls.sentiment = 1, ![r].write = disk,
                      ![r].stored = IF disk = "written" THEN summary ELSE NoSummary,
                      ![r].response = JSONResponse(file_hash, summary)]
    /\ result_cache' = save_to_cache(result_cache, file_hash, summary, disk)

\* analyze_sentiment_parallel raises, or it returns and the handler runs to
\* its end
Finish(r) ==
    /\ requests[r].pc = "sentiment"
    /\ \/ /\ requests' =
                [requests EXCEPT
                   ![r] = Fail(requests[r], insight_cache,
                               [parse |-> 1, insight |-> requests[r].calls.insight,
                                sentiment |-> 1],
                               ServerError).req]
          /\ UNCHANGED result_cache
       \/ \E sentiment \in SentimentOutcomes, disk \in Disk :
             Respond(r, calculate_md5[requests[r].content],
                     ChatSummary(ParsedTable[requests[r].content], requests[r].insight,
                                 sentiment),
                     disk)
    /\ UNCHANGED insight_cache
    /\ UNCHANGED OutsideReq

ReqNext ==
    \/ \E r \in 1..Len(requests) : ReadFile(r)
    \/ \E r \in 1..Len(requests) : Lookup(r)
    \/ \E r \in 1..Len(requests) : Finish(r)

-----------------------------------------------------------------------------
(* PhoneAnonymizer (src/anonymizer.py) *)

ADJECTIVES ==
    <<"Happy", "Bouncy", "Cosmic", "Dancing", "Electric", "Fluffy", "Glowing",
      "Hyper", "Jazzy", "Magical", "Nifty", "Quirky", "Sparkly", "Whimsical",
      "Zesty", "Bubbly", "Cheerful", "Dazzling", "Energetic", "Fantastic">>

NOUNS ==
    <<"Penguin", "Unicorn", "Dragon", "Phoenix", "Wizard", "Ninja", "Panda",
      "Robot", "Dolphin", "Koala", "Raccoon", "Tiger", "Llama", "Octopus",
      "Platypus", "Narwhal", "Giraffe", "Kangaroo", "Hedgehog", "Chameleon">>

\* the class of PhoneAnonymizer.UNICODE_CONTROL_CHARS: U+200E, U+200F,
\* U+202A..U+202F and U+00A0
PhoneAnonymizer_UNICODE_CONTROL_CHARS ==
    {"LRM", "RLM", "LRE", "RLE", "PDF", "LRO", "RLO", "NNBSP", "NBSP"}

\* the class of the second substitution of _clean_phone, as the source file
\* spells it: U+00E2, U+20AC, U+2018, U+201C, U+201D
HyphenClass == {"ACIRC", "EURO", "LSQUO", "LDQUO", "RDQUO"}

\* COUNTRY_CODE_LENGTHS: the keys of the table by the length it gives them
COUNTRY_CODE_LENGTHS ==
    << {"1" },
       {"20", "27", "30", "31", "32", "33", "34", "36", "39", "40", "41", "43", "44",
        "45", "46", "47", "48", "49", "51", "52", "53", "54", "55", "56", "57", "58",
        "60", "61", "62", "63", "64", "65", "66", "81", "82", "84", "86", "90", "91",
        "92", "93", "94", "95", "98" },
       {"212", "213", "216", "218", "220", "221", "222", "223", "234", "249", "250",
        "251", "252", "253", "254", "255", "256", "257", "258", "260", "261", "263",
        "264", "265", "266", "267", "268", "269", "297", "298", "299", "350", "351",
        "352", "353", "354", "355", "356", "357", "358", "359", "370", "371", "372",
        "373", "374", "375", "376", "377", "378", "380", "381", "382", "385", "386",
        "387", "389", "420", "421", "423", "500", "501", "502", "503", "504", "505",
        "506", "507", "509", "590", "591", "592", "593", "594", "595", "596", "597",
        "598", "599", "670", "672", "673", "674", "675", "676", "677", "678", "679",
        "680", "681", "682", "683", "685", "686", "687", "688", "689", "690", "691",
        "692", "850", "852", "853", "855", "856", "880", "886", "960", "961", "962",
        "963", "964", "965", "966", "967", "968", "970", "971", "972", "973", "974",
        "975", "976", "977", "992", "993", "994", "995", "996", "998" } >>

\* the markers of the display name, as the source file spells them
RealMarker == <<"[", "ETH", "YDIAERESIS", "LSQUO", "CURRENCY", "]", " ">>
GeneratedMarker == <<"[", "ETH", "YDIAERESIS", "ZCARON", "SHY", "]", " ">>

\* the keys of COUNTRY_CODE_LENGTHS whose value is length, as texts
CountryCodes == [length \in 1..3 |-> {Chars(k) : k \in COUNTRY_CODE_LENGTHS[length]}]

\* code points outside 0..9 for which str.isdigit() is true
OtherDigits == {"SUP2"}

\* re.sub(class, '', s)
Without(s, class) == SelectSeq(s, LAMBDA c : c \notin class)

\* re.sub(class, c, s) for a class without a repetition
Replaced(s, class, c) == [i \in 1..Len(s) |-> IF s[i] \in class THEN c ELSE s[i]]

\* _clean_phone
clean_phone(p) ==
    SelectSeq(Replaced(Without(p, PhoneAnonymizer_UNICODE_CONTROL_CHARS), HyphenClass, "-"),
              LAMBDA c : c \in Digits \cup OtherDigits \/ c = "+")

\* the loop of _extract_country_code over the lengths 3, 2, 1 and the line after it
RECURSIVE MatchCode(_, _)
MatchCode(digits, length) ==
    IF length = 0 THEN << <<"+", digits[1]>>, From(digits, 2) >>
    ELSE IF Len(digits) >= length /\ Take(digits, length) \in CountryCodes[length]
    THEN << <<"+">> \o Take(digits, length), From(digits, length + 1) >>
    ELSE MatchCode(digits, length - 1)

\* a variant that takes the first digit for the country code whatever the table holds
extract_country_code_first_digit(p) ==
    IF ~StartsWith(p, <<"+">>)
    THEN IF Len(p) = 10 THEN <<Chars("+1"), p>> ELSE << <<>>, p >>
    ELSE MatchCode(From(p, 2), 0)

\* _extract_country_code: the pair (country code, remaining digits)
extract_country_code(p) ==
    IF ~StartsWith(p, <<"+">>)
    THEN IF Len(p) = 10 THEN <<Chars("+1"), p>> ELSE << <<>>, p >>
    ELSE MatchCode(From(p, 2), 3)

\* a variant of the limit of the short numbers
ShortNumberOfFour == 5 - 1

\* the longest cleaned number anonymize treats as a short number
ShortNumber == 5

\* last_four of anonymize
LastFour(remaining) == IF Len(remaining) >= 4 THEN Last(remaining, 4) ELSE Last(remaining, 1)

\* the long branch of anonymize, from the pair _extract_country_code returned
MaskedLong(parts) == parts[1] \o Chars("****") \o LastFour(parts[2])

\* anonymized of anonymize, from cleaned_phone
Masked(cleaned_phone) ==
    IF Len(cleaned_phone) <= ShortNumber
    THEN [i \in 1..(Len(cleaned_phone) - 1) |-> "*"] \o <<cleaned_phone[Len(cleaned_phone)]>>
    ELSE MaskedLong(extract_country_code(cleaned_phone))

\* a variant that writes the noun first
generate_fun_username_noun_first(adjective, noun) == Chars(noun) \o Chars(adjective)

\* _generate_fun_username, from the two words random.choice returned
generate_fun_username(adjective, noun) == Chars(adjective) \o Chars(noun)

\* a username argument that is a str
Str(s) == [str |-> s]

\* `if username:` is true
Given(u) == u # None /\ u.str # <<>>

\* what _generate_fun_username can return
FunUsernames ==
    {generate_fun_username(ADJECTIVES[i], NOUNS[j]) : i \in 1..Len(ADJECTIVES), j \in 1..Len(NOUNS)}

\* display_name of anonymize, random_name being what _generate_fun_username
\* returns when it is called
DisplayName(u, random_name) ==
    IF Given(u)
    THEN RealMarker \o Without(u.str, PhoneAnonymizer_UNICODE_CONTROL_CHARS)
    ELSE GeneratedMarker \o random_name

\* the separators and control characters written inside the phone numbers
Separators == {" ", ".", "(", "-", "HYPHEN", "LRE"}

\* s with c before, between and after its code points
Interleave(s, c) == [i \in 1..(2 * Len(s) + 1) |-> IF i % 2 = 0 THEN s[i \div 2] ELSE c]

\* the numbers, as digits with at most one '+', which stands in front
PhoneNumbers ==
    {Chars("+15879981598"), Chars("+447464758875"), Chars("+2348116358644"),
     Chars("+79161234567"), Chars("+12345"), Chars("+441234"), Chars("+9941234"),
     Chars("+994123"), Chars("1234567890"), Chars("123456"), Chars("12345"),
     Chars("+1234"), Chars("123"), Chars("7"), <<>>}

\* the phone arguments: the numbers bare and with one separator throughout, and
\* numbers written as the tests write them
PhoneStrings ==
    PhoneNumbers
    \cup {Interleave(s, c) : s \in PhoneNumbers, c \in Separators}
    \cup {<<"ACIRC", "EURO", "ORDF">> \o Chars("+1 (587) 998") \o <<"ACIRC", "EURO", "LSQUO">>
              \o Chars("1598") \o <<"ACIRC", "EURO", "NOT">>,
          <<"LRE", "LRM">> \o Chars("+44") \o <<"RLM", " ", "LRE">> \o Chars("7464")
              \o <<"PDF", " ", "LRO">> \o Chars("758875") \o <<"RLO", "PDF">>,
          Chars("+1") \o <<"SUP2">> \o Chars("34.567.8900"),
          Chars("+1 (443) 739") \o <<"ENDASH">> \o Chars("6663"),
          Chars("+91") \o <<"NBSP">> \o Chars("80885") \o <<"NBSP">> \o Chars("89616"),
          Chars("tel: +30 697 550 3831")}

Usernames ==
    {None, Str(<<>>), Str(Chars("John Doe")), Str(<<"NBSP">>),
     Str(<<"LRE", "LRM">> \o Chars("John") \o <<"RLM", " ", "LRE">> \o Chars("Doe") \o <<"PDF">>)}

AnonInit ==
    /\ phone \in PhoneStrings
    /\ username \in Usernames
    /\ anonymized = <<>>
    /\ display_name = <<>>
    /\ a_pc = "called"

AnonIdle ==
    /\ phone = <<>>
    /\ username = None
    /\ anonymized = <<>>
    /\ display_name = <<>>
    /\ a_pc = "idle"

\* anonymize(phone, username) returns (anonymized, display_name)
Anonymize ==
    /\ a_pc = "called"
    /\ clean_phone(phone) # <<>>
    /\ anonymized' = Masked(clean_phone(phone))
    /\ \E random_name \in IF Given(username) THEN {<<>>} ELSE FunUsernames :
           display_name' = DisplayName(username, random_name)
    /\ a_pc' = "returned"
    /\ UNCHANGED <<phone, username>>
    /\ UNCHANGED OutsideAnon

\* anonymize(phone, username) with nothing left of the phone: cleaned_phone[-1]
\* raises IndexError
AnonymizeRaises ==
    /\ a_pc = "called"
    /\ clean_phone(phone) = <<>>
    /\ a_pc' = "raised"
    /\ UNCHANGED <<phone, username, anonymized, display_name>>
    /\ UNCHANGED OutsideAnon

AnonNext ==
    \/ Anonymize
    \/ AnonymizeRaises

InitLink ==
    LinkInit /\ NormIdle /\ ParseIdle /\ ThreadIdle /\ SentIdle /\ ReqIdle /\ AnonIdle

SpecLink == InitLink /\ [][LinkNext]_vars

InitAnon == AnonInit /\ NormIdle /\ ParseIdle /\ ThreadIdle /\ SentIdle /\ ReqIdle /\ LinkIdle

SpecAnon == InitAnon /\ [][AnonNext]_vars

InitReq == ReqInit /\ NormIdle /\ ParseIdle /\ ThreadIdle /\ SentIdle /\ AnonIdle /\ LinkIdle

SpecReq == InitReq /\ [][ReqNext]_vars

InitSent == SentInit /\ NormIdle /\ ParseIdle /\ ThreadIdle /\ ReqIdle /\ AnonIdle /\ LinkIdle

SpecSent == InitSent /\ [][SentNext]_vars

\* SentReturn can be taken: gather has the result of every task
GatherReady == s_pc = "running" /\ \A g \in 1..Len(tasks) : tasks[g].pc = "done"

\* the event loop runs a task that is ready: one that can take a permit, one
\* that holds a permit, and the gathering coroutine once every task is done.
\* SentReturn is enabled in the states GatherReady and leaves them, so its weak
\* fairness is that the run is again and again outside these states
InitSentFair == SentGateInit /\ NormIdle /\ ParseIdle /\ ThreadIdle /\ ReqIdle /\ AnonIdle /\ LinkIdle

SpecSentFair ==
    /\ InitSentFair
    /\ [][SentNext]_vars
    /\ WF_vars(\E g \in 1..Len(tasks) : Acquire(g))
    /\ WF_vars(\E g \in 1..Len(tasks) : TaskStep(g))
    /\ []<>~GatherReady

InitThread == ThreadInit /\ NormIdle /\ ParseIdle /\ SentIdle /\ ReqIdle /\ AnonIdle /\ LinkIdle

SpecThread == InitThread /\ [][ThreadNext]_vars


InitNorm == NormInit /\ ParseIdle /\ ThreadIdle /\ SentIdle /\ ReqIdle /\ AnonIdle /\ LinkIdle

SpecNorm == InitNorm /\ [][NormNext]_vars

InitParse == ParseInit /\ NormIdle /\ ThreadIdle /\ SentIdle /\ ReqIdle /\ AnonIdle /\ LinkIdle

SpecParse == InitParse /\ [][ParseNext]_vars

\* C8: whatever the input, the text clean_message returns holds none of the
\* control characters of the removal set (U+200E, U+200F, U+202A..U+202E,
\* U+200B, U+200C, U+200D, U+FEFF).
CleanRemovesAllControls ==
    n_pc # "input" => \A i \in 1..Len(n_out) : n_out[i] \notin RemovalSet

\* C9: a notice line of every kind the tests exercise, with control characters
\* of the removal set put in, is detected as a system message from the content
\* after the first ': ' of its cleaned text.
NoticeKindsDetected ==
    (n_pc = "detected" /\ n_kind \in NoticeKinds) => n_system

\* C10: the text of a line classified as a system notice is part of the text of
\* no Message the tokenizer returns (it is not appended to the Message before it).
NoticeTextNotInMessages ==
    p_pc = "done" =>
        \A notice \in p_notices : \A i \in 1..Len(messages) :
            ~Contains(messages[i].message, notice)


\* the words two texts share, as is_related computes them
SharedWords(a, b) == Range(Split(Lower(a))) \cap Range(Split(Lower(b)))

\* two texts share at least 2 tokens, not all of them stop-words
ShareTopic(a, b) ==
    /\ Cardinality(SharedWords(a, b)) >= 2
    /\ ~(SharedWords(a, b) \subseteq COMMON_WORDS)

\* messages_df is exactly two content messages inside the thread window that
\* share at least 2 tokens, not all of them stop-words
TwoRelatedMessages ==
    /\ Len(messages_df) = 2
    /\ \A i \in 1..2 : ~SYSTEM_MESSAGE_PATTERNS(ThreadTexts[messages_df[i].message])
    /\ messages_df[2].timestamp - messages_df[1].timestamp <= THREAD_WINDOW
    /\ ShareTopic(ThreadTexts[messages_df[1].message], ThreadTexts[messages_df[2].message])

\* messages_df is a seed and two messages inside its window that share a topic
\* with it, none of the three skipped
SeedAndTwoReplies ==
    /\ Len(messages_df) = 3
    /\ \A i \in 1..3 : ~SkippedTable[messages_df[i].message]
    /\ \A i \in 2..3 :
          /\ messages_df[i].timestamp - messages_df[1].timestamp <= THREAD_WINDOW
          /\ ShareTopic(ThreadTexts[messages_df[1].message], ThreadTexts[messages_df[i].message])

\* C6: every emitted thread has at least 2 members and its replies count equals
\* the number of its members; a thread of fewer than 2 members is never emitted
EmittedThreadsSignificant ==
    \A list \in {viral_messages, t_result} :
        \A i \in 1..Len(list) :
            /\ Len(list[i].thread) >= 2
            /\ list[i].replies = Len(list[i].thread)

\* C6: the reconstructor returned an emitted thread
ThreadEmitted == t_pc = "done" /\ Len(t_result) >= 1

\* C7 as stated: two content messages inside the window that share a topic
\* ('hello there', 'hello there too') yield exactly one thread of 2 members
TwoMessagesOneThread ==
    (t_pc = "done" /\ TwoRelatedMessages) =>
        /\ Len(t_result) = 1
        /\ Len(t_result[1].thread) = 2

\* C7: two content messages inside the window that share a topic yield no
\* thread; a seed followed by two such messages, none of the three skipped,
\* yields exactly one thread, whose 2 members are the two followers
TwoMessagesNoThread ==
    t_pc = "done" =>
        /\ TwoRelatedMessages => t_result = <<>>
        /\ SeedAndTwoReplies =>
              /\ Len(t_result) = 1
              /\ t_result[1].message = messages_df[1].message
              /\ t_result[1].thread = <<messages_df[2].message, messages_df[3].message>>

\* C7: 'hello there' then 'hello there too' were processed and nothing was emitted
HelloThereProcessed ==
    /\ t_pc = "done"
    /\ TwoRelatedMessages
    /\ ThreadTexts[messages_df[1].message] = Chars("hello there")
    /\ ThreadTexts[messages_df[2].message] = Chars("hello there too")
    /\ t_result = <<>>

\* a seed and its two replies were processed and one thread was emitted
SeedAndTwoRepliesProcessed == t_pc = "done" /\ SeedAndTwoReplies /\ Len(t_result) = 1



\* C2 as stated: no two entries of the returned list have the same date
NoTwoEntriesOfOneDate ==
    s_pc = "done" =>
        \A j, k \in 1..Len(sentiment_data) :
            j # k => sentiment_data[j].date # sentiment_data[k].date

\* C3 as stated: every score analyze_sentiment_batch returned, on every path,
\* and every sentiment of a task's results and of the returned list lies in
\* [-1, 1], whatever the collaborator answered
ScoresInRange ==
    /\ \A r \in batch_returns : InUnitRange(r.score)
    /\ \A g \in 1..Len(tasks) : \A k \in 1..Len(tasks[g].batch_results) :
          InUnitRange(tasks[g].batch_results[k].sentiment)
    /\ \A k \in 1..Len(sentiment_data) : InUnitRange(sentiment_data[k].sentiment)

\* the tasks inside the gate
Inside == {g \in 1..Len(tasks) : tasks[g].pc = "inside"}

\* C4: at most 5 date-group tasks are inside the gate
AtMostFiveInside == Cardinality(Inside) <= 5

\* C4: 5 tasks are inside the gate and another one waits for a permit
GateFull ==
    /\ Cardinality(Inside) = 5
    /\ semaphore = 0
    /\ \E g \in 1..Len(tasks) : tasks[g].pc = "waiting"

\* C5: after the join the returned list has an entry for every date of
\* daily_messages
EveryDateHasEntry ==
    s_pc = "done" =>
        \A d \in 1..Len(daily_messages) :
            \E k \in 1..Len(sentiment_data) : sentiment_data[k].date = d

\* C5: the pipeline returned for a chat of which one group made its call inside
\* the loop and another made the last call
FlushedAndFinalReturned ==
    /\ s_pc = "done"
    /\ \E g \in 1..Len(tasks) : Collect(tasks[g].dates, 1, <<>>).flush
    /\ \E g \in 1..Len(tasks) :
          /\ ~Collect(tasks[g].dates, 1, <<>>).flush
          /\ Collect(tasks[g].dates, 1, <<>>).group_messages # <<>>



\* C1 as stated: once a request has stored the summary of a content and
\* returned, every request that starts later with the same bytes returns that
\* summary, with the same md5, and makes no parse, insight or sentiment call
CacheRoundTrip ==
    \A r \in 1..Len(requests) :
        requests[r].pc = "done" =>
            \A q \in requests[r].after :
                /\ requests[r].response =
                      JSONResponse(calculate_md5[requests[q].content], requests[q].stored)
                /\ requests[r].calls = NoCalls



\* the header lines of ChatLines that parse: a grammar matches the line and
\* its timestamp parses under a format template
ParsedHeaders ==
    {l \in 1..Len(ChatLines) :
        \E k \in 1..Len(WHATSAPP_PATTERNS) :
            Tokenized[l][k].matched /\ Tokenized[l][k].parsed_timestamp.ok}

\* C11: a header line that parses keeps its record in the Message sequence when
\* it is classified as a system notice: the sequence the tokenizer returns
\* is as long as the number of header lines that parse.
SystemNoticesKeepTheirRecord ==
    p_pc = "done" =>
        Len(messages) = Cardinality({i \in 1..Len(lines) : lines[i] \in ParsedHeaders})

\* the groups of the header line l under the grammar k, cleaned
HeaderGroups(l, k) ==
    LET match == GrammarMatch(WHATSAPP_PATTERNS[k], clean_message(ChatLines[l]))
    IN  IF match.matched
        THEN [matched |-> TRUE, sender |-> clean_message(match.sender),
              message |-> clean_message(match.message)]
        ELSE [matched |-> FALSE, sender |-> <<>>, message |-> <<>>]

\* the header lines whose text is '<type> omitted', as <<line, type, sender>>
OmittedHeaders ==
    {<<c[1], OmittedTypes[c[2]], HeaderGroups(c[1], c[3]).sender>> :
        c \in {d \in ParsedHeaders \X (1..Len(OmittedTypes)) \X (1..Len(WHATSAPP_PATTERNS)) :
                 /\ HeaderGroups(d[1], d[3]).matched
                 /\ HeaderGroups(d[1], d[3]).message =
                       Chars(OmittedTypes[d[2]]) \o Chars(" omitted")}}

\* the positions of the elements of a list that satisfy Test
Positions(list, Test(_)) == {i \in 1..Len(list) : Test(list[i])}

\* C12: every header line whose text is '<type> omitted' gives exactly one
\* MediaItem of that type and of the sender of the line, and a Message whose
\* text is the placeholder of that type and sender.
OmittedMediaRecorded ==
    p_pc = "done" =>
        \A h \in OmittedHeaders :
            LET IsItem(item) == item.type = LowerType(h[2]) /\ item.sender = h[3]
                IsPlaceholder(msg) ==
                    msg.sender = h[3] /\ msg.message = MediaPlaceholder(LowerType(h[2]), h[3])
            IN  /\ Cardinality(Positions(media_items, IsItem)) =
                      Cardinality({i \in 1..Len(lines) : lines[i] = h[1]})
                /\ Cardinality(Positions(messages, IsPlaceholder)) =
                      Cardinality({i \in 1..Len(lines) : lines[i] = h[1]})



\* the Message is a media share: its text is the placeholder of a MediaItem
IsMediaShare(msg) ==
    \E i \in 1..Len(media_items) :
        msg.message = MediaPlaceholder(media_items[i].type, media_items[i].sender)

\* C13: a media Message adds nothing to the word and emoji counters: the
\* counters analyze_chat_stats returns are those of the Messages that are no
\* media share.
MediaSharesNotCounted ==
    p_pc = "stats" =>
        LET others == SelectSeq(messages, LAMBDA msg : ~IsMediaShare(msg))
        IN  /\ all_words = analyze_chat_stats(others, 1, NoCounters).all_words
            /\ all_emojis = analyze_chat_stats(others, 1, NoCounters).all_emojis



\* the lines of ChatLines a grammar matches while the timestamp parses under
\* no format template
UnparsableHeaders ==
    {l \in 1..Len(ChatLines) \ ParsedHeaders :
        \E k \in 1..Len(WHATSAPP_PATTERNS) : Tokenized[l][k].matched}

\* C16: a line that matches a grammar and whose timestamp does not parse is
\* dropped: it gives no Message and its text is in the text of no Message.
UnparsableLineDropped ==
    p_pc = "done" =>
        \A i \in 1..Len(lines) :
            lines[i] \in UnparsableHeaders =>
                /\ \A m \in 1..Len(messages) :
                      ~Contains(messages[m].message, clean_message(ChatLines[lines[i]]))
                /\ \A m \in 1..Len(messages), k \in 1..Len(WHATSAPP_PATTERNS) :
                      Tokenized[lines[i]][k].matched =>
                          messages[m].message # Tokenized[lines[i]][k].message

\* the header lines of ChatLines that become a Message
AcceptedHeaders ==
    {l \in 1..Len(ChatLines) :
        \E k \in 1..Len(WHATSAPP_PATTERNS) :
            /\ Tokenized[l][k].matched
            /\ ~Tokenized[l][k].is_system
            /\ Tokenized[l][k].parsed_timestamp.ok}

\* the lines of ChatLines that are not empty and match no grammar
ContinuationLines ==
    {l \in 1..Len(ChatLines) :
        /\ Strip(ChatLines[l]) # <<>>
        /\ \A k \in 1..Len(WHATSAPP_PATTERNS) : ~Tokenized[l][k].matched}

\* the number of Messages accepted before the line i of the input
AcceptedBefore(i) == Cardinality({j \in 1..(i - 1) : lines[j] \in AcceptedHeaders})

\* C17: when the tokenizer has finished, the text of the last Message accepted
\* before a continuation line contains that line, normalized, wherever the
\* line is in the input.
ContinuationsMerged ==
    p_pc = "done" =>
        \A i \in 1..Len(lines) :
            (lines[i] \in ContinuationLines /\ AcceptedBefore(i) > 0) =>
                Contains(messages[AcceptedBefore(i)].message,
                         clean_message(ChatLines[lines[i]]))



\* the requests whose content parses to no Message and that got to the parse
EmptyParsed(r) ==
    /\ requests[r].pc = "done"
    /\ Len(ParsedTable[requests[r].content]) = 0
    /\ requests[r].calls.parse = 1

\* C14: a chat that parses to no Message ends in the 'not a valid export'
\* outcome, and the status of that outcome is not the status internal faults
\* are reported with.
EmptyExportStatusDistinct ==
    \A r \in 1..Len(requests) :
        EmptyParsed(r) =>
            /\ requests[r].response.detail = NotValidExport.detail
            /\ requests[r].response.status # ServerError.status

\* C15: a request whose input has no line, or no line that matches a grammar,
\* never calls the insight collaborator or the sentiment collaborator, and it
\* ends in the empty-result condition.
EmptyInputMakesNoCall ==
    \A r \in 1..Len(requests) :
        Len(ParsedTable[requests[r].content]) = 0 =>
            /\ requests[r].calls.insight = 0
            /\ requests[r].calls.sentiment = 0
            /\ requests[r].pc # "sentiment"
            /\ requests[r].pc = "done" => requests[r].response = NotValidExport

\* the empty upload and a text without a header line both ended in the
\* empty-result condition
EmptyInputsRejected ==
    /\ \E r \in 1..Len(requests) : EmptyParsed(r) /\ Contents[requests[r].content] = <<9>>
    /\ \E r \in 1..Len(requests) : EmptyParsed(r) /\ Contents[requests[r].content] = <<5>>

\* every field of the summary is set
Complete(summary) == summary.activity_by_date # 0 /\ summary.chat_poem # 0

\* the insight call of the request failed
InsightCallFailed(r) ==
    /\ requests[r].pc = "done"
    /\ requests[r].calls.insight = 1
    /\ requests[r].insight = 0

CacheFailuresNeverBlock ==
    \A r \in 1..Len(requests) :
        requests[r].pc = "done" =>
            /\ requests[r].read \in {"broken", "invalid"} => requests[r].calls.parse = 1
            /\ requests[r].write \in {"refused", "failed"} =>
                  /\ requests[r].response.status = 200
                  /\ Complete(requests[r].response.summary)



\* C18: a remote sentiment call that fails gives its batch the neutral score
\* 0.0, the failure does not leave analyze_sentiment_parallel, and no task is
\* ended by it.
RemoteFailuresAbsorbed ==
    /\ \A b \in batch_returns : b.path \in {"failed", "fault"} => b.score = 0
    /\ \A g \in 1..Len(tasks) : tasks[g].pc # "failed"
    /\ s_pc # "raised"



\* C21: a cache entry is write-once: the summary a request stored under its
\* content hash stays the content of that file, whatever the other requests
\* do (it is neither replaced by another summary nor lost).
WriteOnce ==
    \A r \in 1..Len(requests) :
        requests[r].stored # NoSummary =>
            result_cache[calculate_md5[requests[r].content]] = JsonFile(requests[r].stored)



\* C22: every entry of the list analyze_sentiment_parallel returns carries at
\* most 2 sample messages.
AtMostTwoSamples ==
    s_pc = "done" =>
        \A k \in 1..Len(sentiment_data) : Len(sentiment_data[k].messages) <= 2



\* the dates of the entries of a list, in its order
DatesOf(list) == [k \in 1..Len(list) |-> list[k].date]

\* no element occurs twice in the list
Distinct(list) == \A j, k \in 1..Len(list) : j # k => list[j] # list[k]

\* the score of a date: that of its entries in the returned list
ScoreOf(d) ==
    sentiment_data[CHOOSE k \in 1..Len(sentiment_data) : sentiment_data[k].date = d].sentiment

\* C23: with n dates in the chat, saddest_days lists the min(3, n) dates of
\* lowest score in ascending order of score, happiest_days the min(3, n) dates
\* of highest score in descending order, no date twice in a list, and
\* sentiment_over_time is in ascending order of date.
DaysRanked ==
    s_pc = "ranked" =>
        /\ Len(saddest_days) = min(3, Len(daily_messages))
        /\ Len(happiest_days) = min(3, Len(daily_messages))
        /\ Distinct(DatesOf(saddest_days))
        /\ Distinct(DatesOf(happiest_days))
        /\ \A k \in 1..(Len(saddest_days) - 1) :
              le(saddest_days[k].sentiment, saddest_days[k + 1].sentiment)
        /\ \A k \in 1..(Len(happiest_days) - 1) :
              le(happiest_days[k + 1].sentiment, happiest_days[k].sentiment)
        /\ \A d \in 1..Len(daily_messages) :
              /\ d \notin Range(DatesOf(saddest_days)) =>
                    \A k \in 1..Len(saddest_days) : le(saddest_days[k].sentiment, ScoreOf(d))
              /\ d \notin Range(DatesOf(happiest_days)) =>
                    \A k \in 1..Len(happiest_days) : le(ScoreOf(d), happiest_days[k].sentiment)
        /\ \A k \in 1..(Len(sentiment_over_time) - 1) :
              sentiment_over_time[k].date <= sentiment_over_time[k + 1].date

\* the digits and '+' signs of a phone string, in their order
Cleaned(p) == SelectSeq(p, LAMBDA c : c \in Digits \cup OtherDigits \/ c = "+")

\* the lengths of the prefixes of digits that are keys of the country-code table
KnownPrefixes(digits) ==
    {n \in 1..3 : Len(digits) >= n /\ Take(digits, n) \in CountryCodes[n]}

\* the longest prefix of digits the table holds, or else the first digit
LongestCode(digits) ==
    IF KnownPrefixes(digits) = {}
    THEN Take(digits, 1)
    ELSE Take(digits, CHOOSE n \in KnownPrefixes(digits) : \A k \in KnownPrefixes(digits) : k <= n)

\* what PhoneAnonymizer makes of each phone string
CleanedOf == [p \in PhoneStrings |-> Cleaned(p)]
MaskedOf == [p \in PhoneStrings |-> Masked(clean_phone(p))]

\* C24: a phone string whose cleaned form has more than 5 characters, starts
\* with '+' and has at least 4 digits after the country code is returned as the
\* country code ('+' and the longest prefix of 3, 2 or 1 digits the table holds,
\* or else the first digit), '****' and the last 4 digits; every phone string
\* with the same cleaned form gets the same result
LongNumberMasked ==
    (/\ a_pc = "returned"
     /\ Len(Cleaned(phone)) > 5
     /\ Cleaned(phone)[1] = "+"
     /\ Len(Cleaned(phone)) - 1 - Len(LongestCode(From(Cleaned(phone), 2))) >= 4) =>
        /\ anonymized = <<"+">> \o LongestCode(From(Cleaned(phone), 2)) \o Chars("****")
                            \o Last(Cleaned(phone), 4)
        /\ \A p \in PhoneStrings : CleanedOf[p] = Cleaned(phone) => MaskedOf[p] = anonymized

\* a number of a two-digit country code, written with non-breaking hyphens, was masked
UKNumberMasked ==
    /\ a_pc = "returned"
    /\ phone = Interleave(Chars("+447464758875"), "HYPHEN")
    /\ anonymized = Chars("+44****8875")

\* C25: a phone string whose cleaned form has 1 to 5 characters is returned as
\* a string of the same length, '*' everywhere but in the last position, which
\* holds the last character of the cleaned form
ShortNumberMasked ==
    (a_pc = "returned" /\ Len(Cleaned(phone)) \in 1..5) =>
        /\ Len(anonymized) = Len(Cleaned(phone))
        /\ \A i \in 1..(Len(anonymized) - 1) : anonymized[i] = "*"
        /\ anonymized[Len(anonymized)] = Cleaned(phone)[Len(Cleaned(phone))]

\* a number of five digits, written with spaces, was masked
FiveDigitsMasked ==
    /\ a_pc = "returned"
    /\ phone = Interleave(Chars("12345"), " ")
    /\ anonymized = Chars("****5")

\* the generated-user marker followed by one adjective and one noun
GeneratedNames ==
    {GeneratedMarker \o Chars(ADJECTIVES[i]) \o Chars(NOUNS[j]) :
        i \in 1..Len(ADJECTIVES), j \in 1..Len(NOUNS)}

EligibleTexts ==
    {a \in TextIds : ~SYSTEM_MESSAGE_PATTERNS(ThreadTexts[a]) /\ Len(Split(ThreadTexts[a])) >= 3}

\* the texts of ThreadTexts of fewer than 3 tokens
ShortTexts == {a \in TextIds : Len(Split(ThreadTexts[a])) < 3}

\* the loop of process_message_threads is at a row of an eligible message
AtEligibleRow ==
    /\ t_pc = "rows"
    /\ row_num <= Len(messages_df)
    /\ messages_df[row_num].message \in EligibleTexts

\* the row is within 4 hours of the seed of the active thread and related to it
InWindowAndRelated ==
    /\ current_thread # None
    /\ messages_df[row_num].timestamp - current_thread.start_time <= 4 * 3600
    /\ RelatedTable[current_thread.original_message][messages_df[row_num].message]

\* the step adds the message of the row to the active thread and to nothing else
RowJoins ==
    /\ current_thread # None
    /\ current_thread' # None
    /\ current_thread'.original_message = current_thread.original_message
    /\ current_thread'.start_time = current_thread.start_time
    /\ current_thread'.messages = Append(current_thread.messages, messages_df[row_num].message)
    /\ viral_messages' = viral_messages

\* C27: an eligible message is added to the active thread exactly when it is at
\* most 4 hours later than the seed of the thread and related to the seed, so
\* no message is added more than 4 hours after the seed of its thread
JoinsWithinWindowOfSeed == [][AtEligibleRow => (RowJoins <=> InWindowAndRelated)]_vars

\* a message joined at the last instant of the window, and a related message
\* one second later is next
MemberAtWindowEnd ==
    /\ t_pc = "rows"
    /\ row_num = 3
    /\ Len(messages_df) = 3
    /\ current_thread # None
    /\ current_thread.start_time = 0
    /\ current_thread.messages = <<messages_df[2].message>>
    /\ messages_df[2].timestamp = 4 * 3600
    /\ messages_df[3].timestamp = 4 * 3600 + 1
    /\ messages_df[3].message \in EligibleTexts
    /\ RelatedTable[current_thread.original_message][messages_df[3].message]

\* viral_messages with the thread added when it has 2 members or more
Emitted(viral, thread) ==
    IF thread # None /\ Len(thread.messages) >= 2
    THEN Append(viral,
                [message |-> thread.original_message, replies |-> Len(thread.messages),
                 reactions |-> thread.reactions, thread |-> thread.messages])
    ELSE viral

\* C28: an eligible message that does not join closes the active thread, which
\* is emitted if and only if it has 2 members or more, and becomes the seed of
\* the new active thread; the end of the input closes the active thread by the
\* same rule; an eligible message that joins is added to the active thread only;
\* a thread once emitted does not change
ClosedOnceAndReseeded ==
    [][/\ (AtEligibleRow /\ ~InWindowAndRelated) =>
              /\ viral_messages' = Emitted(viral_messages, current_thread)
              /\ current_thread' # None
              /\ current_thread'.original_message = messages_df[row_num].message
              /\ current_thread'.start_time = messages_df[row_num].timestamp
              /\ current_thread'.messages = <<>>
       /\ (AtEligibleRow /\ InWindowAndRelated) => RowJoins
       /\ (t_pc = "rows" /\ row_num > Len(messages_df)) =>
              viral_messages' = Emitted(viral_messages, current_thread)
       /\ Len(viral_messages') >= Len(viral_messages)
       /\ SubSeq(viral_messages', 1, Len(viral_messages)) = viral_messages]_vars

\* a thread of two members was emitted when the next message became a seed
ThreadClosedByNewSeed ==
    /\ t_pc = "rows"
    /\ row_num = 5
    /\ Len(viral_messages) = 1
    /\ viral_messages[1].replies = 2
    /\ current_thread # None
    /\ current_thread.original_message = messages_df[4].message
    /\ current_thread.messages = <<>>

\* C29: a message of fewer than 3 tokens leaves the active thread and the
\* emitted threads as they are
ShortMessageChangesNothing ==
    [][(/\ t_pc = "rows"
        /\ row_num <= Len(messages_df)
        /\ messages_df[row_num].message \in ShortTexts) =>
           UNCHANGED <<current_thread, viral_messages>>]_vars

\* a message of two tokens was passed over while a thread was active
ShortMessagePassedOver ==
    /\ t_pc = "rows"
    /\ row_num = 3
    /\ messages_df[1].message \in EligibleTexts
    /\ messages_df[2].message \in ShortTexts
    /\ current_thread # None
    /\ current_thread.original_message = messages_df[1].message
    /\ current_thread.messages = <<>>

\* how many entries of list are v
Count(list, v) == Cardinality({i \in 1..Len(list) : list[i] = v})

RECURSIVE Emojis(_)
\* the emojis of the texts of a list
Emojis(list) == IF list = <<>> THEN 0 ELSE EmojiTable[Head(list)] + Emojis(Tail(list))

\* C30: the result holds at most 3 threads, all the emitted ones when they are
\* 3 or fewer; they are in descending order of replies + reactions, no emitted
\* thread left out has more than a thread of the result; the reactions of a
\* thread are the emojis of its seed and of its members
TopThreeByEngagement ==
    t_pc = "done" =>
        /\ Len(t_result) = (IF Len(viral_messages) < 3 THEN Len(viral_messages) ELSE 3)
        /\ \A k \in 1..(Len(t_result) - 1) :
               t_result[k].replies + t_result[k].reactions
                   >= t_result[k + 1].replies + t_result[k + 1].reactions
        /\ \A k \in 1..Len(t_result) :
               Count(t_result, t_result[k]) <= Count(viral_messages, t_result[k])
        /\ \A i \in 1..Len(viral_messages), k \in 1..Len(t_result) :
               Count(t_result, viral_messages[i]) < Count(viral_messages, viral_messages[i]) =>
                   viral_messages[i].replies + viral_messages[i].reactions
                       <= t_result[k].replies + t_result[k].reactions
        /\ \A i \in 1..Len(viral_messages) :
               viral_messages[i].reactions =
                   EmojiTable[viral_messages[i].message] + Emojis(viral_messages[i].thread)

\* four threads were emitted and the three of most engagement returned
FourThreadsThreeReturned ==
    /\ t_pc = "done"
    /\ Len(viral_messages) = 4
    /\ Len(t_result) = 3
    /\ t_result[1].reactions > 0
    /\ t_result[1].replies + t_result[1].reactions > t_result[3].replies + t_result[3].reactions
    /\ \E i \in 1..4 : Count(t_result, viral_messages[i]) < Count(viral_messages, viral_messages[i])

\* the first pass is at a row
AtFirstPassRow == l_pc = "links" /\ link_row <= Len(messages_by_time)

\* how many of the urls found in a message are url
UrlCount(urls, url) == Cardinality({i \in 1..Len(urls) : urls[i] = url})

\* a step of the first pass that leaves url, replies and context of the records
\* it finds as they are, adds times(url) emoji counts of the message to the
\* reactions of each, and makes the new records with replies 0, times(url) emoji
\* counts of the message and the message for context
FirstPassAdds(times(_)) ==
    /\ Len(link_stats') >= Len(link_stats)
    /\ \A k \in 1..Len(link_stats) :
           /\ link_stats'[k].url = link_stats[k].url
           /\ link_stats'[k].replies = link_stats[k].replies
           /\ link_stats'[k].context = link_stats[k].context
           /\ link_stats'[k].reactions =
                  link_stats[k].reactions
                      + times(link_stats[k].url) * LinkEmojiTable[messages_by_time[link_row].message]
    /\ \A k \in (Len(link_stats) + 1)..Len(link_stats') :
           /\ times(link_stats'[k].url) > 0
           /\ link_stats'[k].replies = 0
           /\ link_stats'[k].context = messages_by_time[link_row].message
           /\ link_stats'[k].reactions =
                  times(link_stats'[k].url) * LinkEmojiTable[messages_by_time[link_row].message]

\* the url is among the urls of the message of the row: 1 or 0
OncePerMessage(url) ==
    IF UrlCount(UrlsTable[messages_by_time[link_row].message], url) > 0 THEN 1 ELSE 0

\* the occurrences of the url in the message of the row
OncePerOccurrence(url) == UrlCount(UrlsTable[messages_by_time[link_row].message], url)

\* C31, as stated: a record is made at the first message of its url with replies
\* 0, the emoji count and the text of that message; a later message of the url
\* adds its emoji count, once, and leaves context and replies as they are
MessagesAddTheirEmojisOnce == [][AtFirstPassRow => FirstPassAdds(OncePerMessage)]_vars

\* C31, amended: the same with the emoji count of a message added once for
\* every occurrence of the url in it
OccurrencesAddTheirEmojis == [][AtFirstPassRow => FirstPassAdds(OncePerOccurrence)]_vars

\* a link was met again in a message that holds it twice
LinkTwiceInLaterMessage ==
    /\ l_pc = "links"
    /\ link_row = 3
    /\ messages_by_time[1].message = 1
    /\ messages_by_time[2].message = 2
    /\ Len(link_stats) = 1
    /\ link_stats[1].context = 1
    /\ link_stats[1].replies = 0
    /\ link_stats[1].reactions = 3

\* the pairs of rows (m, r): m mentions the url, without regard to case, and the
\* timestamp of r is after that of m and at most 4 hours after it
ReplyPairs(url) ==
    {p \in (1..Len(messages_by_time)) \X (1..Len(messages_by_time)) :
        /\ Contains(Lower(LinkTexts[messages_by_time[p[1]].message]), Lower(url))
        /\ messages_by_time[p[2]].timestamp > messages_by_time[p[1]].timestamp
        /\ messages_by_time[p[2]].timestamp <= messages_by_time[p[1]].timestamp + 4 * 3600}

RECURSIVE EmojisOfReplies(_)
\* the emoji counts of the second rows of a set of pairs, summed
EmojisOfReplies(pairs) ==
    IF pairs = {} THEN 0
    ELSE LinkEmojiTable[messages_by_time[(CHOOSE p \in pairs : TRUE)[2]].message]
             + EmojisOfReplies(pairs \ {CHOOSE p \in pairs : TRUE})

RECURSIVE EmojisOfMentions(_, _)
\* what the first pass adds to the reactions of url over the rows from..end
EmojisOfMentions(url, from) ==
    IF from > Len(messages_by_time) THEN 0
    ELSE UrlCount(UrlsTable[messages_by_time[from].message], url)
                 * LinkEmojiTable[messages_by_time[from].message]
             + EmojisOfMentions(url, from + 1)

\* C32: after the second pass the replies of a url are the number of pairs of a
\* message that mentions it and a message in the 4 hours that follow the
\* mention, a message counted once for every mention it follows, and its emoji
\* count is added to the reactions as many times
RepliesCountedPerMention ==
    l_pc = "done" =>
        \A k \in 1..Len(link_stats) :
            /\ link_stats[k].replies = Cardinality(ReplyPairs(link_stats[k].url))
            /\ link_stats[k].reactions =
                   EmojisOfMentions(link_stats[k].url, 1)
                       + EmojisOfReplies(ReplyPairs(link_stats[k].url))

\* a message that follows two mentions of a link was counted twice
ReplyCountedTwice ==
    /\ l_pc = "done"
    /\ messages_by_time = << [message |-> 1, timestamp |-> 0], [message |-> 1, timestamp |-> 1],
                             [message |-> 4, timestamp |-> 4 * 3600] >>
    /\ Len(link_stats) = 1
    /\ link_stats[1].replies = 3
    /\ link_stats[1].reactions = 7

\* how many code points of a text are digits
DigitCount(s) == Cardinality({i \in 1..Len(s) : s[i] \in Digits \cup OtherDigits})

\* C39: of a phone number whose cleaned form has more than 5 characters, the
\* string anonymize returns shows fewer digits than the number has
LongNumberHidesADigit ==
    (a_pc = "returned" /\ Len(Cleaned(phone)) > 5) =>
        DigitCount(anonymized) < DigitCount(Cleaned(phone))

\* the messages whose text is a media placeholder
Placeholders == {m \in 1..Len(messages) : StartsWith(messages[m].message, Chars("[Media:"))}

\* C37: parse_whatsapp_chat returns as many media items as messages whose text
\* is a media placeholder
MediaItemsMatchPlaceholders ==
    p_pc \in {"done", "stats"} => Len(media_items) = Cardinality(Placeholders)

RECURSIVE DatesOfGroups(_)
\* the dates of the groups of the tasks from the task g on, in their order
DatesOfGroups(g) == IF g > Len(tasks) THEN <<>> ELSE tasks[g].dates \o DatesOfGroups(g + 1)

\* C33: the date groups, one after the other, are the dates in ascending order,
\* each once; every group but the last has 3 dates, and the last has 1 to 3
DatesPartitioned ==
    s_pc # "idle" =>
        /\ DatesOfGroups(1) = [i \in 1..Len(daily_messages) |-> i]
        /\ \A g \in 1..(Len(tasks) - 1) : Len(tasks[g].dates) = 3
        /\ \A g \in 1..Len(tasks) : Len(tasks[g].dates) \in 1..3

\* five dates went through as a group of three and a group of two
FiveDatesInTwoGroups ==
    /\ s_pc = "done"
    /\ Len(daily_messages) = 5
    /\ Len(tasks) = 2
    /\ tasks[1].dates = <<1, 2, 3>>
    /\ tasks[2].dates = <<4, 5>>

\* the step is one of the task g inside the gate
StepOf(g) == tasks[g].pc = "inside" /\ tasks'[g] # tasks[g]

\* the batch the task g hands to analyze_sentiment_batch at its next call
BatchOf(g) == Collect(tasks[g].dates, tasks[g].i, tasks[g].group_messages).group_messages

\* the results the step adds to those of the task g all have this score
NewResultsScore(g, score) ==
    /\ tasks'[g].pc # "failed"
    /\ Len(tasks'[g].batch_results) > Len(tasks[g].batch_results)
    /\ \A k \in (Len(tasks[g].batch_results) + 1)..Len(tasks'[g].batch_results) :
           tasks'[g].batch_results[k].sentiment = score

\* C34: a batch of media messages only gets the score 0.0 whatever the remote
\* collaborator would answer or raise, and sentiment_cache stays as it is
MediaOnlyBatchMakesNoCall ==
    [][\A g \in 1..Len(tasks) :
          (/\ StepOf(g)
           /\ BatchOf(g) # <<>>
           /\ \A k \in 1..Len(BatchOf(g)) : MediaTextTable[BatchOf(g)[k]]) =>
              /\ NewResultsScore(g, 0)
              /\ sentiment_cache' = sentiment_cache]_vars

\* a group of days of media messages only got its score without a call
MediaGroupScored ==
    /\ daily_messages[1] = MediaDay
    /\ tasks[1].pc = "done"
    /\ Len(tasks[1].batch_results) = 3
    /\ [path |-> "empty", score |-> 0] \in batch_returns
    /\ sentiment_cache = <<>>

\* C35: a batch whose filtered content has a score in sentiment_cache gets that
\* score whatever the remote collaborator would answer or raise; a stored score
\* is never replaced, a step stores at most the score of its own batch, and a
\* score other than the 0.0 of a failed call is in the cache once it is returned
StoredScoreServesLaterBatches ==
    [][/\ \A g \in 1..Len(tasks) :
              (StepOf(g) /\ SelectSeq(BatchOf(g), NotMediaText) \in DOMAIN sentiment_cache) =>
                  /\ NewResultsScore(g, sentiment_cache[SelectSeq(BatchOf(g), NotMediaText)])
                  /\ sentiment_cache' = sentiment_cache
       /\ \A key \in DOMAIN sentiment_cache :
              key \in DOMAIN sentiment_cache' /\ sentiment_cache'[key] = sentiment_cache[key]
       /\ \A g \in 1..Len(tasks) :
              StepOf(g) =>
                  DOMAIN sentiment_cache' \subseteq
                      DOMAIN sentiment_cache \cup {SelectSeq(BatchOf(g), NotMediaText)}
       /\ \A g \in 1..Len(tasks) :
              (/\ StepOf(g)
               /\ tasks'[g].pc = "done"
               /\ tasks'[g].batch_results[1].sentiment # 0) =>
                  /\ SelectSeq(BatchOf(g), NotMediaText) \in DOMAIN sentiment_cache'
                  /\ sentiment_cache'[SelectSeq(BatchOf(g), NotMediaText)]
                         = tasks'[g].batch_results[1].sentiment]_vars

\* a later batch of the content of an earlier one was served from the cache
BatchServedFromCache ==
    /\ s_pc = "done"
    /\ sentiment_cache # <<>>
    /\ [path |-> "remote", score |-> 7] \in batch_returns
    /\ [path |-> "hit", score |-> 7] \in batch_returns

\* C36: a task makes its one call of analyze_sentiment_batch in its one step
\* inside the gate: it has no result before, the call inside the loop is made at
\* the third date only, and after the call the task is over, every date of its
\* group having one result and all of them the same score
OneCallPerGroup ==
    [][\A g \in 1..Len(tasks) :
          StepOf(g) =>
              /\ tasks[g].batch_results = <<>>
              /\ tasks[g].i = 1
              /\ BatchOf(g) # <<>>
              /\ Collect(tasks[g].dates, 1, <<>>).flush => Collect(tasks[g].dates, 1, <<>>).i = 3
              /\ tasks'[g].pc \in {"done", "failed"}
              /\ tasks'[g].pc = "done" =>
                     /\ [k \in 1..Len(tasks'[g].batch_results) |-> tasks'[g].batch_results[k].date]
                            = tasks[g].dates
                     /\ \A k \in 1..Len(tasks'[g].batch_results) :
                            tasks'[g].batch_results[k].sentiment
                                = tasks'[g].batch_results[1].sentiment]_vars

\* a group of three days of five samples each got its score at the third date
FlushAtThirdDate ==
    /\ Len(daily_messages) = 3
    /\ \A i \in 1..3 : daily_messages[i] = LongDay
    /\ tasks[1].pc = "done"
    /\ Len(tasks[1].batch_results) = 3
    /\ tasks[1].batch_results[1].sentiment = 7

\* no task has failed
NoTaskFailed == \A g \in 1..Len(tasks) : tasks[g].pc # "failed"

\* C38: the permits out and the permits left are 5 at all times, a task that
\* failed having given its permit back; and unless a remote call fails with an
\* error that is not absorbed, every task gets through the gate and ends,
\* analyze_sentiment_parallel returns and the 5 permits are back
PermitsComeBack ==
    /\ [](s_pc # "idle" => semaphore + Cardinality(Inside) = 5)
    /\ <>(\/ ~NoTaskFailed
           \/ /\ s_pc \in {"done", "ranked"}
              /\ semaphore = 5
              /\ \A g \in 1..Len(tasks) : tasks[g].pc = "done")

\* six tasks went through the gate of 5 permits, a call having failed with an
\* absorbed error, and the permits are back
SixTasksThroughTheGate ==
    /\ s_pc = "done"
    /\ Len(tasks) = 6
    /\ semaphore = 5
    /\ [path |-> "failed", score |-> 0] \in batch_returns

====
